---- MODULE Spec2Model ----
(***************************************************************************)
(* Route-planning core of cpp-transport-catalogue: the catalogue           *)
(* (TransportCatalogue), the graph builder (TransportRouter constructor),  *)
(* the query facade (TransportRouter::FindRoute / BuildRoute) and the      *)
(* "Route" branch of JsonReader::ProcessOneStatRequest.                    *)
(*                                                                         *)
(* A Stop object is the pair <<name, k>>: the k-th Stop pushed to stops_   *)
(* under that name (the code identifies stops by pointer, so re-adding a   *)
(* name creates a distinct object).  Times are doubles: IEEE 754 binary64  *)
(* values with the arithmetic of the code, every +, * and / rounded to the *)
(* nearest double, ties to even.                                           *)
(***************************************************************************)
EXTENDS Integers, Sequences, FiniteSets, TLC

\* ------------------------------------------------------------------ bounds
MaxDistances == 1
MaxRoadDistances == 2
MaxStopObjects == 2
MaxStopRequests == 3
MaxCatalogueDistances == 1
MaxCatalogueRouteLen == 2
MaxRouteLen == 3

\* Names in std::map (lexicographic) order.
StopOrder == <<"A", "B", "C">>
BusOrder == <<"X", "Y">>
StopNames == {StopOrder[i] : i \in DOMAIN StopOrder}
\* The routes a run may add: bus name and the greatest number of stop names in the request.
BusInputs == {<<"X", MaxRouteLen>>}
NetworkBusInputs == {<<"X", MaxRouteLen>>, <<"Y", MaxRouteLen - 1>>}
Dists == {100, 300}
\* Routing settings <<bus_wait_time, bus_velocity>>: those the builder's contract allows,
\* and those ReadRoutingSettings accepts (any numbers).
Settings == {<<6, 6>>}
AnySettings == {<<6, 6>>, <<0, 6>>, <<6, 0>>, <<0, 0>>}

\* ------------------------------------------------------ program constants
MAX_ROUTE_SPANS == 90
KmhToMpmNum == 1000
KmhToMpmDen == 60

\* std::optional and nullable pointers: the empty sequence or a one-element sequence.
NullOpt == <<>>
Some(x) == <<x>>
Value(o) == o[1]

VARIABLES
    phase,               \* position of main: "stops", "distances", "buses", "built"
    stops_,              \* name -> number of Stop objects created with that name
    stopname_to_stop_,   \* registered name -> Stop object
    stop_to_near_stop_,  \* <<Stop, Stop>> -> distance
    bus_routes_,         \* bus name -> [route_, is_roundtrip_]
    router,              \* NullOpt or the TransportRouter's fields
    last,                \* NullOpt or the last Route stat request and its answer
    readers              \* reader -> position and locals of the BuildRoute call it is in

vars == <<phase, stops_, stopname_to_stop_, stop_to_near_stop_, bus_routes_, router, last,
          readers>>

\* --------------------------------------------------------------- sequences
\* The sequences of ss joined in order (by halves, to keep the recursion shallow).
RECURSIVE Concat(_)
Concat(ss) ==
    IF Len(ss) = 0 THEN <<>>
    ELSE IF Len(ss) = 1 THEN ss[1]
    ELSE LET half == Len(ss) \div 2
         IN Concat(SubSeq(ss, 1, half)) \o Concat(SubSeq(ss, half + 1, Len(ss)))

Min(a, b) == IF a < b THEN a ELSE b
Max(a, b) == IF a > b THEN a ELSE b

\* ------------------------------------- natural numbers of any size
\* A natural number as the sequence of its digits in base 2^15, least significant
\* first and without leading zero digits; 0 is the empty sequence.
Base == 2^15

RECURSIVE NatNorm(_)
NatNorm(a) ==
    IF Len(a) = 0 THEN a
    ELSE IF a[Len(a)] = 0 THEN NatNorm(SubSeq(a, 1, Len(a) - 1)) ELSE a

RECURSIVE NatFromInt(_)
NatFromInt(n) == IF n = 0 THEN <<>> ELSE <<n % Base>> \o NatFromInt(n \div Base)

Digit(a, i) == IF i <= Len(a) THEN a[i] ELSE 0

\* The digits of a + b + carry from digit i up; sum is their sum at digit i.
RECURSIVE NatAddFrom(_, _, _, _)
NatAddDigit(a, b, i, sum) == <<sum % Base>> \o NatAddFrom(a, b, i + 1, sum \div Base)

NatAddFrom(a, b, i, carry) ==
    IF i > Len(a) /\ i > Len(b)
    THEN IF carry = 0 THEN <<>> ELSE <<carry>>
    ELSE NatAddDigit(a, b, i, Digit(a, i) + Digit(b, i) + carry)

NatAdd(a, b) == NatAddFrom(a, b, 1, 0)

\* The digits of a - b - borrow from digit i up, for a >= b.
RECURSIVE NatSubFrom(_, _, _, _)
NatSubDigit(a, b, i, difference) ==
    IF difference < 0 THEN <<difference + Base>> \o NatSubFrom(a, b, i + 1, 1)
    ELSE <<difference>> \o NatSubFrom(a, b, i + 1, 0)

NatSubFrom(a, b, i, borrow) ==
    IF i > Len(a) THEN <<>>
    ELSE NatSubDigit(a, b, i, Digit(a, i) - Digit(b, i) - borrow)

\* a - b for a >= b.
NatSub(a, b) == NatNorm(NatSubFrom(a, b, 1, 0))

\* -1, 0 or 1 as a is less than, equal to or greater than b.
RECURSIVE NatCmpFrom(_, _, _)
NatCmpFrom(a, b, i) ==
    IF i = 0 THEN 0
    ELSE IF a[i] < b[i] THEN -1
    ELSE IF a[i] > b[i] THEN 1
    ELSE NatCmpFrom(a, b, i - 1)

NatCmp(a, b) ==
    IF Len(a) < Len(b) THEN -1
    ELSE IF Len(a) > Len(b) THEN 1
    ELSE NatCmpFrom(a, b, Len(a))

\* The digits of a * x + carry from digit i up, for a digit x.
RECURSIVE NatMulDigitFrom(_, _, _, _)
NatMulDigitFrom(a, x, i, carry) ==
    IF i > Len(a)
    THEN IF carry = 0 THEN <<>> ELSE <<carry>>
    ELSE <<(a[i] * x + carry) % Base>> \o NatMulDigitFrom(a, x, i + 1, (a[i] * x + carry) \div Base)

NatMulDigit(a, x) == IF x = 0 THEN <<>> ELSE NatMulDigitFrom(a, x, 1, 0)

Zeros(n) == [i \in 1 .. n |-> 0]

\* a * Base^n
NatShiftDigits(a, n) == IF Len(a) = 0 THEN a ELSE Zeros(n) \o a

RECURSIVE NatMulFrom(_, _, _)
NatMulFrom(a, b, i) ==
    IF i > Len(b) THEN <<>>
    ELSE NatAdd(NatShiftDigits(NatMulDigit(a, b[i]), i - 1), NatMulFrom(a, b, i + 1))

NatMul(a, b) == NatMulFrom(a, b, 1)

\* a * 2^k
NatShl(a, k) ==
    IF Len(a) = 0 \/ k = 0 THEN a ELSE Zeros(k \div 15) \o NatMulDigit(a, 2^(k % 15))

\* The quotient and the remainder of a by a digit d > 0, from the top digit down: quot
\* holds the digits of the quotient above digit i, rem the remainder so far.
RECURSIVE NatDivDigitFrom(_, _, _, _, _)
NatDivDigitFrom(a, d, i, quot, rem) ==
    IF i = 0 THEN [quot |-> NatNorm(quot), rem |-> rem]
    ELSE NatDivDigitFrom(a, d, i - 1, <<(rem * Base + a[i]) \div d>> \o quot,
                         (rem * Base + a[i]) % d)

NatDivDigit(a, d) == NatDivDigitFrom(a, d, Len(a), <<>>, 0)

\* floor(a / 2^k)
NatShr(a, k) ==
    IF k = 0 THEN a
    ELSE IF k \div 15 >= Len(a) THEN <<>>
    ELSE NatDivDigit(SubSeq(a, (k \div 15) + 1, Len(a)), 2^(k % 15)).quot

\* Bit i of a, bit 0 the least significant.
NatBit(a, i) == (Digit(a, (i \div 15) + 1) \div 2^(i % 15)) % 2

\* a has a bit set below bit k.
NatLowBits(a, k) ==
    \/ \E i \in 1 .. Min(k \div 15, Len(a)) : a[i] # 0
    \/ Digit(a, (k \div 15) + 1) % 2^(k % 15) # 0

RECURSIVE IntBitLen(_)
IntBitLen(n) == IF n = 0 THEN 0 ELSE 1 + IntBitLen(n \div 2)

NatBitLen(a) == IF Len(a) = 0 THEN 0 ELSE 15 * (Len(a) - 1) + IntBitLen(a[Len(a)])

RECURSIVE IntTrailingZeros(_)
IntTrailingZeros(n) == IF n % 2 = 1 THEN 0 ELSE 1 + IntTrailingZeros(n \div 2)

\* The number of zero bits below the lowest set bit of a > 0, whose lowest digit other
\* than 0 is digit i or above.
RECURSIVE NatTrailingZerosFrom(_, _)
NatTrailingZerosFrom(a, i) ==
    IF a[i] = 0 THEN 15 + NatTrailingZerosFrom(a, i + 1) ELSE IntTrailingZeros(a[i])

\* The greatest q <= guess with b * q <= a.
RECURSIVE NatQuotDigit(_, _, _)
NatQuotDigit(a, b, guess) ==
    IF NatCmp(NatMulDigit(b, guess), a) <= 0 THEN guess ELSE NatQuotDigit(a, b, guess - 1)

\* Long division of a by b > 0 whose top digit is at least Base / 2, digit k of a after
\* digit k + 1, down to digit 1: quot holds the digits of the quotient above digit k and
\* rem the remainder so far.  The quotient digit is guessed from the top digits of the
\* remainder and of b, and the guess is at most 2 too great.
RECURSIVE NatLongDiv(_, _, _, _, _)
NatLongDivStep(a, b, k, quot, cur, q) ==
    NatLongDiv(a, b, k - 1, <<q>> \o quot, NatSub(cur, NatMulDigit(b, q)))

NatLongDivDigit(a, b, k, quot, cur) ==
    NatLongDivStep(a, b, k, quot, cur,
                   NatQuotDigit(cur, b,
                                Min((Digit(cur, Len(b) + 1) * Base + Digit(cur, Len(b)))
                                       \div b[Len(b)],
                                    Base - 1)))

NatLongDiv(a, b, k, quot, rem) ==
    IF k = 0 THEN [quot |-> NatNorm(quot), rem |-> rem]
    ELSE IF Len(quot) + Len(rem) >= 0
    THEN NatLongDivDigit(a, b, k, quot,
                         IF Len(rem) = 0 /\ a[k] = 0 THEN <<>> ELSE <<a[k]>> \o rem)
    ELSE [quot |-> <<>>, rem |-> <<>>]

\* The division by a digit, with the remainder as a natural number.
NatDigitDivision(division) == [quot |-> division.quot, rem |-> NatFromInt(division.rem)]

\* The division of a * 2^scale by b * 2^scale, with the remainder scaled back.
NatScaledDivision(division, scale) ==
    [quot |-> division.quot, rem |-> NatShr(division.rem, scale)]

NatDivModScaled(a, b, scale) ==
    NatScaledDivision(NatLongDiv(NatShl(a, scale), NatShl(b, scale),
                                 Len(NatShl(a, scale)), <<>>, <<>>),
                      scale)

\* The quotient and the remainder of a by b > 0; both are scaled first to bring the top
\* digit of b to Base / 2 or more, which leaves the quotient as it is.
NatDivMod(a, b) ==
    IF Len(b) = 1 THEN NatDigitDivision(NatDivDigit(a, b[1]))
    ELSE NatDivModScaled(a, b, 15 - IntBitLen(b[Len(b)]))

\* ------------------------------------------------------------- double
\* An IEEE 754 binary64 value: NaN, an infinity, or the finite value
\* (-1)^neg * mant * 2^exp with mant a natural number that is odd, or 0 with exp 0.
NaN == [cls |-> "nan", neg |-> FALSE, mant |-> <<>>, exp |-> 0]
Inf(neg) == [cls |-> "inf", neg |-> neg, mant |-> <<>>, exp |-> 0]
SignedZero(neg) == [cls |-> "finite", neg |-> neg, mant |-> <<>>, exp |-> 0]
Zero == SignedZero(FALSE)

IsZero(a) == a.cls = "finite" /\ Len(a.mant) = 0

\* mant * 2^exp for mant with the given number of trailing zero bits.
FiniteOdd(neg, mant, exp, zeros) ==
    [cls |-> "finite", neg |-> neg, mant |-> NatShr(mant, zeros), exp |-> exp + zeros]

\* The finite value mant * 2^exp, exactly representable, with the mantissa made odd.
Finite(neg, mant, exp) ==
    IF Len(mant) = 0 THEN SignedZero(neg)
    ELSE IF mant[1] % 2 = 1 THEN [cls |-> "finite", neg |-> neg, mant |-> mant, exp |-> exp]
    ELSE FiniteOdd(neg, mant, exp, NatTrailingZerosFrom(mant, 1))

\* The rounded mantissa at its exponent: infinity from 2^1024.
DoubleRounded(neg, rounded, exp) ==
    IF NatBitLen(rounded) + exp > 1024 THEN Inf(neg) ELSE Finite(neg, rounded, exp)

\* The bits kept of a mantissa, rounded up if the bits dropped are more than half a unit
\* of the last place (half: the first bit dropped is set, rest: a lower one is), or half
\* a unit and the kept mantissa is odd.
DoubleRoundKept(neg, kept, exp, half, rest) ==
    DoubleRounded(neg,
                  IF half /\ (rest \/ NatBit(kept, 0) = 1) THEN NatAdd(kept, <<1>>) ELSE kept,
                  exp)

\* The rounding of a mantissa that loses its lowest drop bits.
DoubleRoundDrop(neg, mant, exp, sticky, drop) ==
    DoubleRoundKept(neg, NatShr(mant, drop), exp + drop,
                    drop > 0 /\ NatBit(mant, drop - 1) = 1,
                    sticky \/ (drop > 1 /\ NatLowBits(mant, drop - 1)))

\* The double nearest to mant * 2^exp (plus less than one unit of mant if sticky), ties
\* to the even mantissa: 53 bits, fewer below 2^-1022, infinity from 2^1024.
DoubleRound(neg, mant, exp, sticky) ==
    DoubleRoundDrop(neg, mant, exp, sticky,
                    Max(Max(NatBitLen(mant) - 53, (0 - 1074) - exp), 0))

\* static_cast<double> of an integer
FromInt(n) ==
    IF n < 0 THEN Finite(TRUE, NatFromInt(0 - n), 0) ELSE Finite(FALSE, NatFromInt(n), 0)

\* The position above the highest bit of a finite value other than 0.
Top(a) == NatBitLen(a.mant) + a.exp

\* The sum of two finite values with the mantissas x and y at the same exponent; order
\* is NatCmp(x, y).  Equal values of opposite sign give +0.
DoubleAddOrdered(a_neg, b_neg, x, y, exp, order) ==
    IF a_neg # b_neg /\ order = 0 THEN Zero
    ELSE DoubleRound(IF a_neg = b_neg \/ order > 0 THEN a_neg ELSE b_neg,
                     IF a_neg = b_neg THEN NatAdd(x, y)
                     ELSE IF order > 0 THEN NatSub(x, y) ELSE NatSub(y, x),
                     exp, FALSE)

DoubleAddAligned(a_neg, b_neg, x, y, exp) ==
    DoubleAddOrdered(a_neg, b_neg, x, y, exp, NatCmp(x, y))

\* The sum of two finite values other than 0, at the lesser of their exponents.
DoubleAddAt(a, b, exp) ==
    DoubleAddAligned(a.neg, b.neg, NatShl(a.mant, a.exp - exp), NatShl(b.mant, b.exp - exp),
                     exp)

\* The sum of two finite values other than 0 at the positions top_a and top_b; an operand
\* more than 64 binary places below the other does not change it.
DoubleAddFinite(a, b, top_a, top_b) ==
    IF top_a - top_b > 64 THEN a
    ELSE IF top_b - top_a > 64 THEN b
    ELSE DoubleAddAt(a, b, Min(a.exp, b.exp))

\* a + b
DoubleAdd(a, b) ==
    IF a.cls = "nan" \/ b.cls = "nan" THEN NaN
    ELSE IF a.cls = "inf" THEN (IF b.cls = "inf" /\ a.neg # b.neg THEN NaN ELSE a)
    ELSE IF b.cls = "inf" THEN b
    ELSE IF IsZero(a) THEN (IF IsZero(b) THEN SignedZero(a.neg /\ b.neg) ELSE b)
    ELSE IF IsZero(b) THEN a
    ELSE DoubleAddFinite(a, b, Top(a), Top(b))

\* a * b
DoubleMul(a, b) ==
    IF a.cls = "nan" \/ b.cls = "nan" THEN NaN
    ELSE IF a.cls = "inf" \/ b.cls = "inf"
    THEN (IF IsZero(a) \/ IsZero(b) THEN NaN ELSE Inf(a.neg # b.neg))
    ELSE DoubleRound(a.neg # b.neg, NatMul(a.mant, b.mant), a.exp + b.exp, FALSE)

\* The quotient rounded: the remainder of the division is what the quotient leaves out.
DoubleDivRound(neg, division, exp) ==
    DoubleRound(neg, division.quot, exp, Len(division.rem) # 0)

\* The quotient of two finite values other than 0, the dividend shifted to give a
\* quotient of 55 bits or more.
DoubleDivShifted(a, b, shift) ==
    DoubleDivRound(a.neg # b.neg, NatDivMod(NatShl(a.mant, shift), b.mant),
                   a.exp - b.exp - shift)

\* a / b
DoubleDiv(a, b) ==
    IF a.cls = "nan" \/ b.cls = "nan" THEN NaN
    ELSE IF a.cls = "inf" THEN (IF b.cls = "inf" THEN NaN ELSE Inf(a.neg # b.neg))
    ELSE IF b.cls = "inf" THEN SignedZero(a.neg # b.neg)
    ELSE IF IsZero(b) THEN (IF IsZero(a) THEN NaN ELSE Inf(a.neg # b.neg))
    ELSE IF IsZero(a) THEN SignedZero(a.neg # b.neg)
    ELSE DoubleDivShifted(a, b, Max(55 + NatBitLen(b.mant) - NatBitLen(a.mant), 0))

\* -1, 0 or 1 as |a| is less than, equal to or greater than |b|, for finite values at the
\* positions top_a and top_b.
DoubleCmpAt(a, b, top_a, top_b) ==
    IF IsZero(a) THEN (IF IsZero(b) THEN 0 ELSE -1)
    ELSE IF IsZero(b) THEN 1
    ELSE IF top_a < top_b THEN -1
    ELSE IF top_a > top_b THEN 1
    ELSE NatCmp(NatShl(a.mant, a.exp - Min(a.exp, b.exp)),
                NatShl(b.mant, b.exp - Min(a.exp, b.exp)))

\* a < b
DoubleLess(a, b) ==
    IF a.cls = "nan" \/ b.cls = "nan" THEN FALSE
    ELSE IF IsZero(a) /\ IsZero(b) THEN FALSE
    ELSE IF a.neg # b.neg THEN a.neg
    ELSE IF a.cls = "inf" THEN (a.neg /\ b.cls # "inf")
    ELSE IF b.cls = "inf" THEN ~b.neg
    ELSE IF a.neg THEN DoubleCmpAt(a, b, Top(a), Top(b)) > 0
    ELSE DoubleCmpAt(a, b, Top(a), Top(b)) < 0

\* The double n / d of two integers converted to double.
Frac(n, d) == DoubleDiv(FromInt(n), FromInt(d))

\* total_time += item.time, and the sum of two weights in the engine
TimeAdd(a, b) == DoubleAdd(a, b)

\* a < b, as the engine compares weights
TimeLess(a, b) == DoubleLess(a, b)

\* ------------------------------------------------------------ the catalogue
Registered == DOMAIN stopname_to_stop_

\* TransportCatalogue::AddStop / AddStopImpl
AddStop(name) ==
    /\ stops_' = [stops_ EXCEPT ![name] = @ + 1]
    /\ stopname_to_stop_' =
         [n \in Registered \cup {name} |->
            IF n = name THEN <<name, stops_[name] + 1>> ELSE stopname_to_stop_[n]]
    /\ UNCHANGED <<stop_to_near_stop_, bus_routes_>>

\* TransportCatalogue::FindStop
FindStop(stop_name) ==
    IF stop_name \in Registered THEN Some(stopname_to_stop_[stop_name]) ELSE NullOpt

\* TransportCatalogue::AddDistance
AddDistance(stopname_from, stopname_to, distance) ==
    LET from == FindStop(stopname_from)
        to == FindStop(stopname_to)
    IN /\ IF from = NullOpt \/ to = NullOpt
          THEN UNCHANGED stop_to_near_stop_
          ELSE stop_to_near_stop_' =
                 [p \in DOMAIN stop_to_near_stop_ \cup {<<Value(from), Value(to)>>} |->
                    IF p = <<Value(from), Value(to)>> THEN distance
                    ELSE stop_to_near_stop_[p]]
       /\ UNCHANGED <<stops_, stopname_to_stop_, bus_routes_>>

\* The loop of AddRoute, were an unknown stop name stored as a stop that was never added.
KnownStops_KeepsUnknown(stopnames) ==
    [k \in DOMAIN stopnames |->
        IF stopnames[k] \in Registered THEN stopname_to_stop_[stopnames[k]]
        ELSE <<stopnames[k], 0>>]

\* The loop of TransportCatalogue::AddRoute: unknown stop names are skipped.
KnownStops(stopnames) ==
    LET known == SelectSeq(stopnames, LAMBDA n : n \in Registered)
    IN [k \in DOMAIN known |-> stopname_to_stop_[known[k]]]

\* TransportCatalogue::AddRoute
AddRoute(bus_name, stopnames, is_roundtrip) ==
    /\ bus_routes_' =
         [b \in DOMAIN bus_routes_ \cup {bus_name} |->
            IF b = bus_name
            THEN [route_ |-> KnownStops(stopnames), is_roundtrip_ |-> is_roundtrip]
            ELSE bus_routes_[b]]
    /\ UNCHANGED <<stops_, stopname_to_stop_, stop_to_near_stop_>>

\* GetDistance, were the opposite direction not consulted.
GetDistance_NoFallback(from, to) ==
    IF <<from, to>> \in DOMAIN stop_to_near_stop_ THEN stop_to_near_stop_[<<from, to>>] ELSE 0

\* TransportCatalogue::GetDistance
GetDistance(from, to) ==
    IF <<from, to>> \in DOMAIN stop_to_near_stop_ THEN stop_to_near_stop_[<<from, to>>]
    ELSE IF <<to, from>> \in DOMAIN stop_to_near_stop_ THEN stop_to_near_stop_[<<to, from>>]
    ELSE 0

\* The orders in which an unordered_map with the keys S may hand out its elements.
Orders(S) ==
    {o \in [1 .. Cardinality(S) -> S] : \A x \in S : \E i \in DOMAIN o : o[i] = x}

\* The sorted map, were the elements left in the order the unordered_map hands them out.
GetAllSortedStopsOf_Unsorted(iteration) == iteration

\* The loop of GetAllSortedStops: every element the unordered_map hands out is emplaced
\* into a std::map, which keeps its keys in lexicographic order.
GetAllSortedStopsOf(iteration) ==
    SelectSeq(StopOrder, LAMBDA n : \E i \in DOMAIN iteration : iteration[i] = n)

\* The loop of GetAllSortedBuses.
GetAllSortedBusesOf(iteration) ==
    SelectSeq(BusOrder, LAMBDA b : \E i \in DOMAIN iteration : iteration[i] = b)

\* TransportCatalogue::GetAllSortedStops: the registered names in map order.
GetAllSortedStops == GetAllSortedStopsOf(CHOOSE o \in Orders(Registered) : TRUE)

\* TransportCatalogue::GetAllSortedBuses: the bus names in map order.
GetAllSortedBuses == GetAllSortedBusesOf(CHOOSE o \in Orders(DOMAIN bus_routes_) : TRUE)


\* ------------------------------------------------- the shortest-path engine
\* graph::DirectedWeightedGraph::GetEdge: edge ids count from 0.
GetEdge(graph, edge_id) == graph.edges[edge_id + 1]

Vertices(graph) == 0 .. (graph.vertex_count - 1)
EdgeIds(graph) == 0 .. (Len(graph.edges) - 1)

\* The vertex the relaxation settles next: least tentative distance, then least id.
NextVertex(dist, open) ==
    LET least == {v \in open : \A x \in open : ~TimeLess(Value(dist[x]), Value(dist[v]))}
    IN CHOOSE v \in least : \A x \in least : v <= x

\* The scan of the edges lo .. hi in the order they were added: best is kept unless an edge
\* of es is cheaper (by halves, to keep the recursion shallow; the first half is scanned
\* to its end before the second is begun).
RECURSIVE BestEdgeFrom(_, _, _, _, _)
BestEdgeFrom(graph, es, lo, hi, best) ==
    IF lo > hi THEN best
    ELSE IF lo = hi
    THEN IF lo \in es /\ (best = NullOpt \/ TimeLess(GetEdge(graph, lo).weight,
                                                       GetEdge(graph, Value(best)).weight))
         THEN Some(lo)
         ELSE best
    ELSE LET mid == (lo + hi) \div 2
             left == BestEdgeFrom(graph, es, lo, mid, best)
         IN IF left = NullOpt \/ left # NullOpt
            THEN BestEdgeFrom(graph, es, mid + 1, hi, left)
            ELSE best

\* The cheapest edge of es, the first added among equals.
BestEdge(graph, es) == Value(BestEdgeFrom(graph, es, 0, Len(graph.edges) - 1, NullOpt))

\* The function f as a stored table: its values are computed once, when the table is made,
\* and not at every lookup.
Stored(f) == IF f = f THEN f ELSE f

\* For every pair of vertices the cheapest edge from the one to the other, NullOpt if
\* there is none.
CheapestEdges(graph) ==
    [u \in Vertices(graph) |->
        [v \in Vertices(graph) |->
            LET es == {e \in EdgeIds(graph) :
                          GetEdge(graph, e).from = u /\ GetEdge(graph, e).to = v}
            IN IF es = {} THEN NullOpt ELSE Some(BestEdge(graph, es))]]

\* Single-source relaxation over non-negative weights: the least total weight to every
\* vertex (NullOpt if unreachable) and the last edge of a path realizing it.
RECURSIVE Relax(_, _, _, _, _)
\* The weight through, if it is an improvement on dist_v, with the edge that gives it.
RelaxEdge(dist_v, through, e) ==
    IF dist_v = NullOpt \/ TimeLess(through, Value(dist_v))
    THEN Some([weight |-> through, edge |-> e])
    ELSE NullOpt

\* Vertex u is settled; step holds the improvements its edges bring.
RelaxWith(graph, cheapest, dist, prev, done, u, step) ==
    Relax(graph, cheapest,
          Stored([v \in Vertices(graph) |->
             IF step[v] = NullOpt THEN dist[v] ELSE Some(Value(step[v]).weight)]),
          Stored([v \in Vertices(graph) |->
             IF step[v] = NullOpt THEN prev[v] ELSE Some(Value(step[v]).edge)]),
          done \cup {u})

RelaxVertex(graph, cheapest, dist, prev, done, u) ==
    RelaxWith(graph, cheapest, dist, prev, done, u,
              Stored([v \in Vertices(graph) |->
                 IF cheapest[u][v] = NullOpt \/ v \in done \/ v = u THEN NullOpt
                 ELSE RelaxEdge(dist[v],
                                TimeAdd(Value(dist[u]),
                                        GetEdge(graph, Value(cheapest[u][v])).weight),
                                Value(cheapest[u][v]))]))

RelaxOpen(graph, cheapest, dist, prev, done, open) ==
    IF open = {} THEN [dist |-> dist, prev |-> prev]
    ELSE RelaxVertex(graph, cheapest, dist, prev, done, NextVertex(dist, open))

Relax(graph, cheapest, dist, prev, done) ==
    RelaxOpen(graph, cheapest, dist, prev, done,
              {v \in Vertices(graph) \ done : dist[v] # NullOpt})

\* graph::Router::Router: the routes from every vertex, computed once when the router is built.
RouterInit(graph) ==
    LET cheapest == Stored(CheapestEdges(graph))
    IN [from \in Vertices(graph) |->
           Relax(graph, cheapest,
                 [v \in Vertices(graph) |-> IF v = from THEN Some(Zero) ELSE NullOpt],
                 [v \in Vertices(graph) |-> NullOpt],
                 {})]

\* The edge ids from the source to v, following the predecessor edges back.
RECURSIVE PathTo(_, _, _, _)
PathTo(graph, prev, from, v) ==
    IF v = from THEN <<>>
    ELSE PathTo(graph, prev, from, GetEdge(graph, Value(prev[v])).from) \o <<Value(prev[v])>>

\* graph::Router::BuildRoute: NullOpt when unreachable, weight 0 and no edges when from = to.
RouterBuildRoute(graph, routes, from, to) ==
    IF routes[from].dist[to] = NullOpt THEN NullOpt
    ELSE Some([weight |-> Value(routes[from].dist[to]),
               edges |-> PathTo(graph, routes[from].prev, from, to)])

\* ------------------------------------------------------------- the router
\* TransportRouter::RouteData::Wait
RouteDataWait(stop_name, time) ==
    [type |-> "Wait", stop_name |-> stop_name, bus_name |-> "", span_count |-> 0, time |-> time]

\* RouteData::Bus, were span_count the number of stops of the ride and not of its spans.
RouteDataBus_StopCount(bus_name, span_count, time) ==
    [type |-> "Bus", stop_name |-> "", bus_name |-> bus_name, span_count |-> span_count + 1,
     time |-> time]

\* TransportRouter::RouteData::Bus
RouteDataBus(bus_name, span_count, time) ==
    [type |-> "Bus", stop_name |-> "", bus_name |-> bus_name, span_count |-> span_count,
     time |-> time]

\* stop_ids_, were the vertex ids handed out from the last name of the map to the first.
StopIds_Descending(all_stops) ==
    [n \in {all_stops[i] : i \in DOMAIN all_stops} |->
        2 * (Len(all_stops) - (CHOOSE i \in DOMAIN all_stops : all_stops[i] = n))]

\* Stage 1 of the constructor: stop_ids_ gives the k-th name of the sorted map vertex 2k.
StopIds(all_stops) ==
    [n \in {all_stops[i] : i \in DOMAIN all_stops} |->
        2 * ((CHOOSE i \in DOMAIN all_stops : all_stops[i] = n) - 1)]

\* The Wait step, were the edge to end at the vertex it starts from.
WaitStep_SelfLoop(all_stops, i, bus_wait_time) ==
    LET vertex_id == 2 * (i - 1)
    IN [edges |-> << [from |-> vertex_id, to |-> vertex_id, weight |-> bus_wait_time] >>,
        infos |-> << RouteDataWait(all_stops[i], bus_wait_time) >>]

\* The Wait step, were every Wait entry given the name of the first stop of the map.
WaitStep_FirstName(all_stops, i, bus_wait_time) ==
    LET vertex_id == 2 * (i - 1)
    IN [edges |-> << [from |-> vertex_id, to |-> vertex_id + 1, weight |-> bus_wait_time] >>,
        infos |-> << RouteDataWait(all_stops[1], bus_wait_time) >>]

\* Stage 1: one step per stop, an edge and its RouteData.
WaitStep(all_stops, i, bus_wait_time) ==
    LET vertex_id == 2 * (i - 1)
    IN [edges |-> << [from |-> vertex_id, to |-> vertex_id + 1, weight |-> bus_wait_time] >>,
        infos |-> << RouteDataWait(all_stops[i], bus_wait_time) >>]

\* Stage 1: vertex_to_stop_name_, indexed by vertex id.
VertexToStopName(all_stops) ==
    [v \in 0 .. (2 * Len(all_stops) - 1) |-> all_stops[(v \div 2) + 1]]

\* The forward distance loop, were it to start one hop late (k = i + 2).
RECURSIVE TotalDistance_SkipFirstHop(_, _, _)
TotalDistance_SkipFirstHop(stops, i, j) ==
    IF j <= i + 1 THEN 0
    ELSE TotalDistance_SkipFirstHop(stops, i, j - 1) + GetDistance(stops[j], stops[j + 1])

\* The inner distance loops; stops is 1-based here, positions i < j are the code's 0-based
\* ones.  The distances of the hops from position i to position j are added up by halves,
\* to keep the recursion shallow.
RECURSIVE TotalDistance(_, _, _)
TotalDistance(stops, i, j) ==
    IF j <= i THEN 0
    ELSE IF j = i + 1 THEN GetDistance(stops[j], stops[j + 1])
    ELSE TotalDistance(stops, i, (i + j) \div 2) + TotalDistance(stops, (i + j) \div 2, j)

RECURSIVE ReverseDistance(_, _, _)
ReverseDistance(stops, i, j) ==
    IF j <= i THEN 0
    ELSE IF j = i + 1 THEN GetDistance(stops[j + 1], stops[j])
    ELSE ReverseDistance(stops, (i + j) \div 2, j) + ReverseDistance(stops, i, (i + j) \div 2)

\* The travel time, were metres divided by km/h without the conversion to metres per minute.
TravelTime_NoUnitConversion(distance, bus_velocity) ==
    DoubleDiv(FromInt(distance), FromInt(bus_velocity))

\* constexpr double k_KmhToMpm = 1000.0 / 60.0
k_KmhToMpm == DoubleDiv(FromInt(KmhToMpmNum), FromInt(KmhToMpmDen))

\* static_cast<double>(distance) / (bus_velocity_ * k_KmhToMpm)
TravelTime(distance, bus_velocity) ==
    DoubleDiv(FromInt(distance), DoubleMul(FromInt(bus_velocity), k_KmhToMpm))

\* The (i, j) step, were the reverse edge given the forward sum (distances taken as symmetric).
RideStep_ReverseReusesForward(stop_ids, bus_name, bus, i, j, bus_velocity) ==
    LET stops == bus.route_
        from == stops[i + 1]
        to == stops[j + 1]
        travel_time == TravelTime(TotalDistance(stops, i, j), bus_velocity)
        reverse_time == travel_time
        forward == [edges |-> << [from |-> stop_ids[from[1]] + 1, to |-> stop_ids[to[1]],
                                  weight |-> travel_time] >>,
                    infos |-> << RouteDataBus(bus_name, j - i, travel_time) >>]
        reverse == [edges |-> << [from |-> stop_ids[to[1]] + 1, to |-> stop_ids[from[1]],
                                  weight |-> reverse_time] >>,
                    infos |-> << RouteDataBus(bus_name, j - i, reverse_time) >>]
    IN IF bus.is_roundtrip_
       THEN forward
       ELSE [edges |-> forward.edges \o reverse.edges, infos |-> forward.infos \o reverse.infos]

\* The (i, j) step, were the reverse edge added whatever is_roundtrip_ says.
RideStep_AlwaysReverse(stop_ids, bus_name, bus, i, j, bus_velocity) ==
    LET stops == bus.route_
        from == stops[i + 1]
        to == stops[j + 1]
        travel_time == TravelTime(TotalDistance(stops, i, j), bus_velocity)
        reverse_time == TravelTime(ReverseDistance(stops, i, j), bus_velocity)
    IN [edges |-> << [from |-> stop_ids[from[1]] + 1, to |-> stop_ids[to[1]],
                      weight |-> travel_time],
                     [from |-> stop_ids[to[1]] + 1, to |-> stop_ids[from[1]],
                      weight |-> reverse_time] >>,
        infos |-> << RouteDataBus(bus_name, j - i, travel_time),
                     RouteDataBus(bus_name, j - i, reverse_time) >>]

\* The (i, j) step, were the ride edges to leave from the arrival vertex of a stop.
RideStep_FromArrival(stop_ids, bus_name, bus, i, j, bus_velocity) ==
    LET stops == bus.route_
        from == stops[i + 1]
        to == stops[j + 1]
        travel_time == TravelTime(TotalDistance(stops, i, j), bus_velocity)
        reverse_time == TravelTime(ReverseDistance(stops, i, j), bus_velocity)
        forward == [edges |-> << [from |-> stop_ids[from[1]], to |-> stop_ids[to[1]],
                                  weight |-> travel_time] >>,
                    infos |-> << RouteDataBus(bus_name, j - i, travel_time) >>]
        reverse == [edges |-> << [from |-> stop_ids[to[1]], to |-> stop_ids[from[1]],
                                  weight |-> reverse_time] >>,
                    infos |-> << RouteDataBus(bus_name, j - i, reverse_time) >>]
    IN IF bus.is_roundtrip_
       THEN forward
       ELSE [edges |-> forward.edges \o reverse.edges, infos |-> forward.infos \o reverse.infos]

\* The AddEdge and push_back calls of the (i, j) loop for the two times it computes: the
\* forward edge and, unless roundtrip, the reverse one.
RideEdges(stop_ids, bus_name, bus, i, j, travel_time, reverse_time) ==
    LET from == bus.route_[i + 1]
        to == bus.route_[j + 1]
    IN IF bus.is_roundtrip_
       THEN [edges |-> << [from |-> stop_ids[from[1]] + 1, to |-> stop_ids[to[1]],
                           weight |-> travel_time] >>,
             infos |-> << RouteDataBus(bus_name, j - i, travel_time) >>]
       ELSE [edges |-> << [from |-> stop_ids[from[1]] + 1, to |-> stop_ids[to[1]],
                           weight |-> travel_time],
                          [from |-> stop_ids[to[1]] + 1, to |-> stop_ids[from[1]],
                           weight |-> reverse_time] >>,
             infos |-> << RouteDataBus(bus_name, j - i, travel_time),
                          RouteDataBus(bus_name, j - i, reverse_time) >>]

\* The body of the (i, j) loop: the forward edge and, unless roundtrip, the reverse one.
RideStep(stop_ids, bus_name, bus, i, j, bus_velocity) ==
    RideEdges(stop_ids, bus_name, bus, i, j,
              TravelTime(TotalDistance(bus.route_, i, j), bus_velocity),
              TravelTime(ReverseDistance(bus.route_, i, j), bus_velocity))

\* The positions, were the bound put on the end position j and not on the span j - i.
RidePairsWithin_BoundOnEnd(size, max_spans) ==
    Concat([i \in 1 .. size |->
        LET last_j == Min(size - 1, max_spans)
        IN [d \in 1 .. (IF last_j >= i THEN last_j - (i - 1) ELSE 0) |-> <<i - 1, (i - 1) + d>>]])

\* The positions the two nested loops visit, in loop order, for a bound on j - i.
RidePairsWithin(size, max_spans) ==
    Concat([i \in 1 .. size |->
        LET last_j == Min(size - 1, (i - 1) + max_spans)
        IN [d \in 1 .. (IF last_j >= i THEN last_j - (i - 1) ELSE 0) |-> <<i - 1, (i - 1) + d>>]])

\* The positions, were the inner loop to run from the farthest stop back to the nearest.
RidePairs_DescendingEnd(size) ==
    Concat([i \in 1 .. size |->
        LET last_j == Min(size - 1, (i - 1) + MAX_ROUTE_SPANS)
            count == IF last_j >= i THEN last_j - (i - 1) ELSE 0
        IN [d \in 1 .. count |-> <<i - 1, (i - 1) + (count + 1 - d)>>]])

\* The positions the loops visit with the bound of the class, MAX_ROUTE_SPANS.
RidePairs(size) == RidePairsWithin(size, MAX_ROUTE_SPANS)

\* Stage 2 for one bus, were a route of a single stop given a ride from the stop to itself.
BusSteps_SingleStopRide(stop_ids, bus_name, bus, bus_velocity) ==
    IF Len(bus.route_) = 0 THEN <<>>
    ELSE IF Len(bus.route_) = 1
    THEN << [edges |-> << [from |-> stop_ids[bus.route_[1][1]] + 1,
                           to |-> stop_ids[bus.route_[1][1]], weight |-> Zero] >>,
             infos |-> << RouteDataBus(bus_name, 0, Zero) >>] >>
    ELSE LET pairs == RidePairs(Len(bus.route_))
         IN [p \in DOMAIN pairs |->
                RideStep(stop_ids, bus_name, bus, pairs[p][1], pairs[p][2], bus_velocity)]

\* Stage 2 for one bus: nothing for a route of fewer than 2 stops.
BusSteps(stop_ids, bus_name, bus, bus_velocity) ==
    IF Len(bus.route_) < 2 THEN <<>>
    ELSE LET pairs == RidePairs(Len(bus.route_))
         IN [p \in DOMAIN pairs |->
                RideStep(stop_ids, bus_name, bus, pairs[p][1], pairs[p][2], bus_velocity)]

\* The two stages of the constructor over the sorted stops and buses: the graph, the
\* segment table and the two name tables.
RouterSteps(all_stops, all_buses, wait_time, bus_velocity, stop_ids) ==
    [i \in DOMAIN all_stops |-> WaitStep(all_stops, i, wait_time)]
    \o Concat([b \in DOMAIN all_buses |->
           BusSteps(stop_ids, all_buses[b], bus_routes_[all_buses[b]], bus_velocity)])

\* The members the steps of the two stages leave behind.
RouterMembers(all_stops, wait_time, bus_velocity, stop_ids, steps) ==
    [bus_wait_time_ |-> wait_time,
     bus_velocity_ |-> bus_velocity,
     graph_ |-> [vertex_count |-> 2 * Len(all_stops),
                 edges |-> Concat([s \in DOMAIN steps |-> steps[s].edges])],
     stop_ids_ |-> stop_ids,
     vertex_to_stop_name_ |-> VertexToStopName(all_stops),
     edge_info_ |-> Concat([s \in DOMAIN steps |-> steps[s].infos])]

RouterTables(all_stops, all_buses, wait_time, bus_velocity) ==
    RouterMembers(all_stops, wait_time, bus_velocity, StopIds(all_stops),
                  RouterSteps(all_stops, all_buses, wait_time, bus_velocity,
                              StopIds(all_stops)))

\* TransportRouter::TransportRouter
RouterWithEngine(tables) ==
    [bus_wait_time_ |-> tables.bus_wait_time_,
     bus_velocity_ |-> tables.bus_velocity_,
     graph_ |-> tables.graph_,
     router_ |-> RouterInit(tables.graph_),
     stop_ids_ |-> tables.stop_ids_,
     vertex_to_stop_name_ |-> tables.vertex_to_stop_name_,
     edge_info_ |-> tables.edge_info_]

TransportRouter(bus_wait_time, bus_velocity) ==
    RouterWithEngine(RouterTables(GetAllSortedStops, GetAllSortedBuses,
                                  FromInt(bus_wait_time), bus_velocity))


\* ------------------------------------------------------------- the queries
\* FindRoute, were the route to end at the departure vertex of the destination.
FindRoute_ToDeparture(r, from, to) ==
    IF from \notin DOMAIN r.stop_ids_ \/ to \notin DOMAIN r.stop_ids_
    THEN NullOpt
    ELSE RouterBuildRoute(r.graph_, r.router_, r.stop_ids_[from], r.stop_ids_[to] + 1)

\* FindRoute, were the route to start at the departure vertex of the origin.
FindRoute_FromDeparture(r, from, to) ==
    IF from \notin DOMAIN r.stop_ids_ \/ to \notin DOMAIN r.stop_ids_
    THEN NullOpt
    ELSE RouterBuildRoute(r.graph_, r.router_, r.stop_ids_[from] + 1, r.stop_ids_[to])

\* FindRoute, were the destination looked up with a defaulting subscript and not with find.
FindRoute_DefaultVertex(r, from, to) ==
    IF from \notin DOMAIN r.stop_ids_
    THEN NullOpt
    ELSE RouterBuildRoute(r.graph_, r.router_, r.stop_ids_[from],
                          IF to \in DOMAIN r.stop_ids_ THEN r.stop_ids_[to] ELSE 0)

\* TransportRouter::FindRoute
FindRoute(r, from, to) ==
    IF from \notin DOMAIN r.stop_ids_ \/ to \notin DOMAIN r.stop_ids_
    THEN NullOpt
    ELSE LET from_vertex == r.stop_ids_[from]
             to_vertex == r.stop_ids_[to]
         IN RouterBuildRoute(r.graph_, r.router_, from_vertex, to_vertex)

\* The translation loop, were the route filled from its last edge to its first.
Translate_BackToFront(r, edges) ==
    [k \in DOMAIN edges |-> r.edge_info_[edges[Len(edges) + 1 - k] + 1]]

\* The translation loop of TransportRouter::BuildRoute.
Translate(r, edges) == [k \in DOMAIN edges |-> r.edge_info_[edges[k] + 1]]

\* BuildRoute, were a missing route turned into a found route without segments.
BuildRouteFrom_EmptyFound(r, route_info) ==
    IF route_info = NullOpt THEN Some(<<>>) ELSE Some(Translate(r, Value(route_info).edges))

\* TransportRouter::BuildRoute after its call of FindRoute.
BuildRouteFrom(r, route_info) ==
    IF route_info = NullOpt THEN NullOpt ELSE Some(Translate(r, Value(route_info).edges))

\* TransportRouter::BuildRoute
BuildRoute(r, from, to) == BuildRouteFrom(r, FindRoute(r, from, to))

\* RequestHandler::BuildRoute hands the request to the router.
RequestHandlerBuildRoute(r, from, to) == BuildRoute(r, from, to)

\* total_time, were the accumulation to skip the first item.
RECURSIVE TotalTime_SkipFirst(_)
TotalTime_SkipFirst(route_data) ==
    IF Len(route_data) <= 1 THEN Zero
    ELSE TimeAdd(TotalTime_SkipFirst(SubSeq(route_data, 1, Len(route_data) - 1)),
                 route_data[Len(route_data)].time)

\* total_time of the "Route" branch: the items' times added up from the first to the last.
RECURSIVE TotalTime(_)
TotalTime(route_data) ==
    IF Len(route_data) = 0 THEN Zero
    ELSE TimeAdd(TotalTime(SubSeq(route_data, 1, Len(route_data) - 1)),
                 route_data[Len(route_data)].time)

\* One element of "items".
Item(item) ==
    IF item.type = "Wait"
    THEN [type |-> item.type, stop_name |-> item.stop_name, time |-> item.time]
    ELSE [type |-> item.type, bus |-> item.bus_name, span_count |-> item.span_count,
          time |-> item.time]

\* JsonReader::ProcessOneStatRequest, the "Route" branch, after db.BuildRoute returned.
RouteResponse(route_data) ==
    IF route_data = NullOpt
    THEN [error_message |-> "not found"]
    ELSE [items |-> [k \in DOMAIN Value(route_data) |-> Item(Value(route_data)[k])],
          total_time |-> TotalTime(Value(route_data))]

\* JsonReader::ProcessOneStatRequest, the "Route" branch with string from and to.
ProcessOneStatRequest(r, from, to) == RouteResponse(RequestHandlerBuildRoute(r, from, to))

\* ------------------------------------------------------------- the program
NoMap == [x \in {} |-> 0]

\* The threads a host may use to serve Route requests once the router is built.
Readers == {"r1", "r2"}

\* A reader that is in no call: its locals do not exist.
Idle ==
    [pc |-> "idle", from |-> "", to |-> "", from_vertex |-> 0, to_vertex |-> 0,
     route_info |-> NullOpt, route |-> <<>>, result |-> NullOpt]

NoReaders == [r \in Readers |-> Idle]

RECURSIVE SeqsUpTo(_, _)
SeqsUpTo(S, n) ==
    IF n = 0 THEN {<<>>}
    ELSE LET shorter == SeqsUpTo(S, n - 1)
         IN shorter \cup {Append(q, x) : q \in {t \in shorter : Len(t) = n - 1}, x \in S}

Init ==
    /\ phase = "stops"
    /\ stops_ = [n \in StopNames |-> 0]
    /\ stopname_to_stop_ = NoMap
    /\ stop_to_near_stop_ = NoMap
    /\ bus_routes_ = NoMap
    /\ router = NullOpt
    /\ last = NullOpt
    /\ readers = NoReaders

\* JsonReader::ProcessStops, one Stop request; its name may have been added before.  The
\* requests end when stops_.size(), the number of Stop objects created so far, is at the
\* bound.
ProcessStop ==
    /\ phase = "stops"
    /\ Cardinality({o \in StopNames \X (1 .. MaxStopObjects) : o[2] <= stops_[o[1]]})
           < MaxStopRequests
    /\ \E name \in StopNames :
          /\ stops_[name] < MaxStopObjects
          /\ AddStop(name)
    /\ UNCHANGED <<phase, router, last, readers>>

\* One road_distances entry, were the distances read after the buses as well.
ProcessDistance_AfterBuses ==
    /\ phase \in {"stops", "distances", "buses"}
    /\ Cardinality(DOMAIN stop_to_near_stop_) < MaxDistances
    /\ \E from \in StopNames, to \in StopNames, distance \in Dists :
          AddDistance(from, to, distance)
    /\ phase' = phase
    /\ UNCHANGED <<router, last, readers>>

\* JsonReader::ProcessDistances, one road_distances entry, in a run that stores at most
\* max_distances pairs; the destination may be the stop itself.
ProcessDistanceUpTo(max_distances) ==
    /\ phase \in {"stops", "distances"}
    /\ Cardinality(DOMAIN stop_to_near_stop_) < max_distances
    /\ \E from \in StopNames, to \in StopNames, distance \in Dists :
          AddDistance(from, to, distance)
    /\ phase' = "distances"
    /\ UNCHANGED <<router, last, readers>>

ProcessDistance == ProcessDistanceUpTo(MaxDistances)

ProcessRoadDistance == ProcessDistanceUpTo(MaxRoadDistances)

\* One call of TransportCatalogue::AddRoute while the base requests are loaded.
ProcessBusWith(inputs) ==
    /\ phase \in {"stops", "distances", "buses"}
    /\ \E input \in inputs, is_roundtrip \in BOOLEAN :
          \E stopnames \in SeqsUpTo(StopNames, input[2]) :
             AddRoute(input[1], stopnames, is_roundtrip)
    /\ phase' = "buses"
    /\ UNCHANGED <<router, last, readers>>

ProcessBus == ProcessBusWith(BusInputs)

ProcessNetworkBus == ProcessBusWith(NetworkBusInputs)

\* TransportRouterBuilder::Build with the settings read by ReadRoutingSettings.
BuildWith(settings) ==
    /\ phase \in {"stops", "distances", "buses"}
    /\ \E routing_settings \in settings :
          router' = Some(TransportRouter(routing_settings[1], routing_settings[2]))
    /\ phase' = "built"
    /\ UNCHANGED <<stops_, stopname_to_stop_, stop_to_near_stop_, bus_routes_, last, readers>>

Build == BuildWith(Settings)

BuildAnySettings == BuildWith(AnySettings)

\* A Route request, were the route found for the previous request reused whenever the
\* destination is the same.
Query_ReusesRoute ==
    /\ phase = "built"
    /\ \E from \in StopNames, to \in StopNames :
          LET route_info == IF last # NullOpt /\ Value(last).to = to
                            THEN Value(last).route_info
                            ELSE FindRoute(Value(router), from, to)
              route_data == BuildRouteFrom(Value(router), route_info)
          IN last' = Some([from |-> from, to |-> to,
                           route_info |-> route_info,
                           route_data |-> route_data,
                           response |-> RouteResponse(route_data)])
    /\ UNCHANGED <<phase, stops_, stopname_to_stop_, stop_to_near_stop_, bus_routes_, router,
                   readers>>

\* JsonReader::ProcessStatRequests, one Route request.
Query ==
    /\ phase = "built"
    /\ \E from \in StopNames, to \in StopNames :
          LET route_info == FindRoute(Value(router), from, to)
              route_data == BuildRouteFrom(Value(router), route_info)
          IN last' = Some([from |-> from, to |-> to,
                           route_info |-> route_info,
                           route_data |-> route_data,
                           response |-> RouteResponse(route_data)])
    /\ UNCHANGED <<phase, stops_, stopname_to_stop_, stop_to_near_stop_, bus_routes_, router,
                   readers>>

Next == ProcessStop \/ ProcessDistance \/ ProcessBus \/ Build \/ Query

Spec == Init /\ [][Next]_vars

\* A catalogue whose three stops are loaded; up to MaxRoadDistances road distances, the
\* routes of one bus and the construction of the router follow.
InitStops ==
    /\ phase = "stops"
    /\ stops_ = [n \in StopNames |-> 1]
    /\ stopname_to_stop_ = [n \in StopNames |-> <<n, 1>>]
    /\ stop_to_near_stop_ = NoMap
    /\ bus_routes_ = NoMap
    /\ router = NullOpt
    /\ last = NullOpt
    /\ readers = NoReaders

NextDistances == ProcessRoadDistance \/ ProcessBus \/ Build

SpecDistances == InitStops /\ [][NextDistances]_vars

\* A catalogue whose three stops and four road distances are loaded; two buses follow.
InitNetwork ==
    /\ phase = "distances"
    /\ stops_ = [n \in StopNames |-> 1]
    /\ stopname_to_stop_ = [n \in StopNames |-> <<n, 1>>]
    /\ stop_to_near_stop_ =
          (<< <<"A", 1>>, <<"B", 1>> >> :> 100) @@ (<< <<"B", 1>>, <<"A", 1>> >> :> 300) @@
          (<< <<"B", 1>>, <<"C", 1>> >> :> 100) @@ (<< <<"A", 1>>, <<"C", 1>> >> :> 300)
    /\ bus_routes_ = NoMap
    /\ router = NullOpt
    /\ last = NullOpt
    /\ readers = NoReaders

NextNetwork == ProcessNetworkBus \/ Build \/ Query

SpecNetwork == InitNetwork /\ [][NextNetwork]_vars

\* The same stops with roads of 10 m and 20 m, a tenth and a fifth of a minute at 6 km/h:
\* times that no double holds exactly, so that the sums of times are rounded.
InitShortRoads ==
    /\ phase = "distances"
    /\ stops_ = [n \in StopNames |-> 1]
    /\ stopname_to_stop_ = [n \in StopNames |-> <<n, 1>>]
    /\ stop_to_near_stop_ =
          (<< <<"A", 1>>, <<"B", 1>> >> :> 10) @@ (<< <<"B", 1>>, <<"A", 1>> >> :> 300) @@
          (<< <<"B", 1>>, <<"C", 1>> >> :> 20) @@ (<< <<"A", 1>>, <<"C", 1>> >> :> 300)
    /\ bus_routes_ = NoMap
    /\ router = NullOpt
    /\ last = NullOpt
    /\ readers = NoReaders

SpecShortRoads == InitShortRoads /\ [][NextNetwork]_vars

\* The same catalogue, one bus, and routing settings that are not checked for their sign.
NextAnySettings == ProcessBus \/ BuildAnySettings \/ Query

SpecAnySettings == InitNetwork /\ [][NextAnySettings]_vars

\* Two stops A and B, 700 m apart by road: seven minutes at 6 km/h.
InitScenario ==
    /\ phase = "distances"
    /\ stops_ = [n \in StopNames |-> IF n \in {"A", "B"} THEN 1 ELSE 0]
    /\ stopname_to_stop_ = [n \in {"A", "B"} |-> <<n, 1>>]
    /\ stop_to_near_stop_ = (<< <<"A", 1>>, <<"B", 1>> >> :> 700)
    /\ bus_routes_ = NoMap
    /\ router = NullOpt
    /\ last = NullOpt
    /\ readers = NoReaders

NextScenario == ProcessBus \/ Build \/ Query

SpecScenario == InitScenario /\ [][NextScenario]_vars

\* The numbers of stops of the routes of the long-route runs: short ones, and one of
\* MAX_ROUTE_SPANS + 2 stops, where the bound on j - i cuts position pairs off.
LongRouteLens == {1, 2, 3, 4, 5, MAX_ROUTE_SPANS + 2}

\* A route of n stops that visits A, B, C, A, B, C, ...
LongRoute(n) == [k \in 1 .. n |-> StopOrder[((k - 1) % Len(StopOrder)) + 1]]

\* One call of TransportCatalogue::AddRoute with a long route.
ProcessLongBus ==
    /\ phase \in {"distances", "buses"}
    /\ \E n \in LongRouteLens, is_roundtrip \in BOOLEAN : AddRoute("X", LongRoute(n), is_roundtrip)
    /\ phase' = "buses"
    /\ UNCHANGED <<router, last, readers>>

NextLongRoute == ProcessLongBus \/ Build \/ Query

SpecLongRoute == InitNetwork /\ [][NextLongRoute]_vars

\* ------------------------------------------------- the JSON base requests
\* stops.size() * 2 - 1 in size_t: for an empty array the subtraction wraps around to
\* 2^64 - 1, which is written here as the negative number it is short of 2^64.
ReserveRequest(size) ==
    [wrapped |-> size * 2 < 1, value |-> size * 2 - 1]

\* std::vector::reserve throws std::length_error when asked for more than max_size().
ReserveThrows(request) == request.wrapped

Reverse(seq) == [k \in DOMAIN seq |-> seq[Len(seq) + 1 - k]]

\* ProcessBuses, "the full route": there and back for a route that is not a roundtrip,
\* the first stop appended to a roundtrip whose ends differ.
ExpandStops(stops, is_roundtrip) ==
    IF ~is_roundtrip
    THEN stops \o Tail(Reverse(stops))
    ELSE IF Len(stops) > 0 /\ stops[1] # stops[Len(stops)]
         THEN Append(stops, stops[1])
         ELSE stops

\* JsonReader::ProcessBuses, one Bus request with its strings of "stops" and is_roundtrip.
ProcessBusRequest ==
    /\ phase \in {"stops", "distances", "buses"}
    /\ \E input \in BusInputs, is_roundtrip \in BOOLEAN :
          \E stops \in SeqsUpTo(StopNames, input[2]) :
             IF ~is_roundtrip /\ ReserveThrows(ReserveRequest(Len(stops)))
             THEN /\ phase' = "failed_buses"
                  /\ UNCHANGED <<stops_, stopname_to_stop_, stop_to_near_stop_, bus_routes_>>
             ELSE /\ phase' = "buses"
                  /\ IF Len(ExpandStops(stops, is_roundtrip)) > 0
                     THEN AddRoute(input[1], ExpandStops(stops, is_roundtrip), is_roundtrip)
                     ELSE UNCHANGED <<stops_, stopname_to_stop_, stop_to_near_stop_, bus_routes_>>
    /\ UNCHANGED <<router, last, readers>>

\* JsonReader::ReadRoutingSettings throws: "routing_settings" is missing or ill-typed.
SettingsError ==
    /\ phase \in {"stops", "distances", "buses"}
    /\ phase' = "failed_settings"
    /\ UNCHANGED <<stops_, stopname_to_stop_, stop_to_near_stop_, bus_routes_, router, last,
                   readers>>

\* main, from the empty catalogue to the stat requests or to the catch clause.
NextMain ==
    ProcessStop \/ ProcessDistance \/ ProcessBusRequest \/ SettingsError \/ Build \/ Query

SpecMain == Init /\ [][NextMain]_vars

\* ------------------------------------------------------ concurrent readers
\* The steps of one call of TransportRouter::BuildRoute made by reader r; every step reads
\* the router and writes the locals of r only.
Local(r, locals) == readers' = [readers EXCEPT ![r] = locals]

ReaderFrame ==
    UNCHANGED <<phase, stops_, stopname_to_stop_, stop_to_near_stop_, bus_routes_, router, last>>

\* ProcessOneStatRequest reaches db.BuildRoute(from, to).
StartQuery(r) ==
    /\ phase = "built"
    /\ readers[r].pc = "idle"
    /\ \E from \in StopNames, to \in StopNames :
          Local(r, [Idle EXCEPT !.pc = "resolve", !.from = from, !.to = to])
    /\ ReaderFrame

\* FindRoute: the two lookups in stop_ids_.
ResolveNames(r) ==
    /\ readers[r].pc = "resolve"
    /\ LET stop_ids == Value(router).stop_ids_
           me == readers[r]
       IN IF me.from \notin DOMAIN stop_ids \/ me.to \notin DOMAIN stop_ids
          THEN Local(r, [me EXCEPT !.pc = "done", !.result = NullOpt])
          ELSE Local(r, [me EXCEPT !.pc = "engine",
                                   !.from_vertex = stop_ids[me.from],
                                   !.to_vertex = stop_ids[me.to]])
    /\ ReaderFrame

\* FindRoute: router_->BuildRoute, and the test of its result in BuildRoute.
RunShortestPath(r) ==
    /\ readers[r].pc = "engine"
    /\ LET me == readers[r]
           route_info == RouterBuildRoute(Value(router).graph_, Value(router).router_,
                                          me.from_vertex, me.to_vertex)
       IN IF route_info = NullOpt
          THEN Local(r, [me EXCEPT !.pc = "done", !.result = NullOpt])
          ELSE Local(r, [me EXCEPT !.pc = "translate", !.route_info = route_info])
    /\ ReaderFrame

\* One turn of the translation loop, were the route under construction a buffer that
\* all callers share.
TranslateEdge_SharedRoute(r) ==
    /\ readers[r].pc = "translate"
    /\ LET me == readers[r]
           edges == Value(me.route_info).edges
           shared == Append(me.route, Value(router).edge_info_[edges[Len(me.route) + 1] + 1])
       IN /\ Len(me.route) < Len(edges)
          /\ readers' =
                [x \in Readers |->
                    [readers[x] EXCEPT
                        !.route = IF readers[x].pc = "translate" THEN shared ELSE @]]
    /\ ReaderFrame

\* One turn of the translation loop, were the loop to look at the same edge again and
\* again without storing anything.
TranslateEdge_NoProgress(r) ==
    /\ readers[r].pc = "translate"
    /\ Len(readers[r].route) < Len(Value(readers[r].route_info).edges)
    /\ Local(r, readers[r])
    /\ ReaderFrame

\* One turn of the translation loop of BuildRoute: route.push_back(edge_info_[edge_id]).
TranslateEdge(r) ==
    /\ readers[r].pc = "translate"
    /\ LET me == readers[r]
           edges == Value(me.route_info).edges
       IN /\ Len(me.route) < Len(edges)
          /\ Local(r, [me EXCEPT !.route =
                Append(@, Value(router).edge_info_[edges[Len(me.route) + 1] + 1])])
    /\ ReaderFrame

\* The loop is over: BuildRoute returns the route.
ReturnRoute(r) ==
    /\ readers[r].pc = "translate"
    /\ Len(readers[r].route) >= Len(Value(readers[r].route_info).edges)
    /\ Local(r, [readers[r] EXCEPT !.pc = "done", !.result = Some(readers[r].route)])
    /\ ReaderFrame

\* The response is written and the locals of the call are gone.
FinishQuery(r) ==
    /\ readers[r].pc = "done"
    /\ Local(r, Idle)
    /\ ReaderFrame

ReaderStep(r) ==
    ResolveNames(r) \/ RunShortestPath(r) \/ TranslateEdge(r) \/ ReturnRoute(r) \/ FinishQuery(r)

\* The catalogue main holds before the build: stops A and B, or A, B and C; a Bus
\* request X with the stops A, B as a roundtrip, and a Bus request Y, not a roundtrip,
\* with the stops B, C or with the stop C alone, each stored as ProcessBuses expands it.
InitReaders ==
    /\ phase = "buses"
    /\ \E names \in {{"A", "B"}, StopNames} :
          /\ stops_ = [n \in StopNames |-> IF n \in names THEN 1 ELSE 0]
          /\ stopname_to_stop_ = [n \in names |-> <<n, 1>>]
          /\ stop_to_near_stop_ =
                IF "C" \in names
                THEN (<< <<"A", 1>>, <<"B", 1>> >> :> 100) @@ (<< <<"B", 1>>, <<"C", 1>> >> :> 300)
                ELSE (<< <<"A", 1>>, <<"B", 1>> >> :> 100)
          /\ \E y_stops \in {<<"B", "C">>, <<"C">>} :
                bus_routes_ =
                   ("X" :> [route_ |-> KnownStops(ExpandStops(<<"A", "B">>, TRUE)),
                            is_roundtrip_ |-> TRUE]) @@
                   ("Y" :> [route_ |-> KnownStops(ExpandStops(y_stops, FALSE)),
                            is_roundtrip_ |-> FALSE])
    /\ router = NullOpt
    /\ last = NullOpt
    /\ readers = NoReaders

NextReaders == Build \/ \E r \in Readers : StartQuery(r) \/ ReaderStep(r)

SpecReaders == InitReaders /\ [][NextReaders]_vars

\* A reader that is in a call keeps taking steps.
SpecReadersFair == SpecReaders /\ \A r \in Readers : WF_vars(ReaderStep(r))


\* ------------------------------------------- the catalogue's interface
\* The names the callers of AddStop use; the third name of StopNames is never added.
CatalogueNames == {"A", "B"}

\* A call of TransportCatalogue::AddStop, also with a name that was added before.
AddStopCall ==
    /\ phase # "built"
    /\ \E name \in CatalogueNames :
          /\ stops_[name] < MaxStopObjects
          /\ AddStop(name)
    /\ UNCHANGED <<phase, router, last, readers>>

\* A call of TransportCatalogue::AddDistance with any two names.
AddDistanceCall ==
    /\ phase # "built"
    /\ Cardinality(DOMAIN stop_to_near_stop_) < MaxCatalogueDistances
    /\ \E from \in StopNames, to \in StopNames : AddDistance(from, to, 100)
    /\ UNCHANGED <<phase, router, last, readers>>

\* A call of TransportCatalogue::AddRoute with any names, added or not.
AddRouteCall ==
    /\ phase # "built"
    /\ \E is_roundtrip \in BOOLEAN :
          \E stopnames \in SeqsUpTo(StopNames, MaxCatalogueRouteLen) :
             AddRoute("X", stopnames, is_roundtrip)
    /\ UNCHANGED <<phase, router, last, readers>>

NextCatalogue == AddStopCall \/ AddDistanceCall \/ AddRouteCall \/ Build

SpecCatalogue == Init /\ [][NextCatalogue]_vars

\* ---------------------------------------------------------------- claims
Built == router # NullOpt
Asked == last # NullOpt

\* The weights of all paths to target that visit no vertex twice and go on from v, which
\* a path of the given weight has reached: the weights of the edges of a path are added
\* up from its first edge to its last, as the engine adds them.
RECURSIVE AllPathWeights(_, _, _, _, _)
AllPathWeights(graph, v, target, visited, weight) ==
    IF v = target THEN {weight}
    ELSE UNION {AllPathWeights(graph, GetEdge(graph, e).to, target,
                               visited \cup {GetEdge(graph, e).to},
                               TimeAdd(weight, GetEdge(graph, e).weight)) :
                e \in {x \in EdgeIds(graph) :
                          GetEdge(graph, x).from = v /\ GetEdge(graph, x).to \notin visited}}

PathWeights(graph, a, b) == AllPathWeights(graph, a, b, {a}, Zero)

IsLeast(w, ws) == w \in ws /\ \A x \in ws : ~TimeLess(x, w)

\* edges is a chain of edges of the graph leading from vertex a to vertex b.
IsPath(graph, edges, a, b) ==
    /\ \A k \in DOMAIN edges : edges[k] \in EdgeIds(graph)
    /\ IF Len(edges) = 0 THEN a = b
       ELSE /\ GetEdge(graph, edges[1]).from = a
            /\ GetEdge(graph, edges[Len(edges)]).to = b
            /\ \A k \in 1 .. (Len(edges) - 1) :
                  GetEdge(graph, edges[k]).to = GetEdge(graph, edges[k + 1]).from

\* The last query named two registered stops.
AskedKnown ==
    /\ Asked
    /\ Value(last).from \in Registered
    /\ Value(last).to \in Registered

ArrivalOf(name) == Value(router).stop_ids_[name]

\* C1: a query between two different registered stops that some path of the graph joins
\* answers with the edges of a path from arrival(from) to arrival(to), and the total time
\* of its segments is the least total weight of any such path.
C1_ShortestRoute ==
    (AskedKnown /\ Value(last).from # Value(last).to) =>
        LET q == Value(last)
            graph == Value(router).graph_
            a == ArrivalOf(q.from)
            b == ArrivalOf(q.to)
        IN PathWeights(graph, a, b) # {} =>
              /\ q.route_info # NullOpt
              /\ q.route_data # NullOpt
              /\ IsPath(graph, Value(q.route_info).edges, a, b)
              /\ Len(Value(q.route_data)) = Len(Value(q.route_info).edges)
              /\ IsLeast(TotalTime(Value(q.route_data)), PathWeights(graph, a, b))
              /\ q.response = [items |-> [k \in DOMAIN Value(q.route_data) |->
                                            Item(Value(q.route_data)[k])],
                               total_time |-> TotalTime(Value(q.route_data))]

\* The route found rides bus Y although paths of other weights exist as well.
C1_Witness ==
    /\ AskedKnown
    /\ Value(last).from # Value(last).to
    /\ Value(last).route_data # NullOpt
    /\ Len(Value(Value(last).route_data)) = 2
    /\ Value(Value(last).route_data)[2].bus_name = "Y"
    /\ Cardinality(PathWeights(Value(router).graph_, ArrivalOf(Value(last).from),
                               ArrivalOf(Value(last).to))) >= 2

\* C2: a query that names a stop the catalogue does not have answers with the empty
\* optional, which the request layer reports as "not found".
C2_UnknownStopNotFound ==
    (Asked /\ (Value(last).from \notin Registered \/ Value(last).to \notin Registered)) =>
        /\ Value(last).route_data = NullOpt
        /\ Value(last).response = [error_message |-> "not found"]

\* From a registered stop that buses serve to a name that is not a stop.
C2_Witness ==
    /\ Asked
    /\ Value(last).from \in Registered
    /\ Value(last).to \notin Registered
    /\ \E e \in EdgeIds(Value(router).graph_) :
          GetEdge(Value(router).graph_, e).from = ArrivalOf(Value(last).from) + 1

\* C3: between two registered stops that no path of the graph joins the answer is the
\* empty optional, not a found route without segments.
C3_NoRouteIsEmptyOptional ==
    AskedKnown =>
        LET q == Value(last)
        IN PathWeights(Value(router).graph_, ArrivalOf(q.from), ArrivalOf(q.to)) = {} =>
              /\ q.route_data = NullOpt
              /\ q.response = [error_message |-> "not found"]

\* Both stops are on routes, but no chain of routes leads from one to the other.
C3_Witness ==
    /\ AskedKnown
    /\ PathWeights(Value(router).graph_, ArrivalOf(Value(last).from),
                   ArrivalOf(Value(last).to)) = {}
    /\ \A n \in {Value(last).from, Value(last).to} :
          \E b \in DOMAIN bus_routes_ :
             /\ Len(bus_routes_[b].route_) >= 2
             /\ \E k \in DOMAIN bus_routes_[b].route_ : bus_routes_[b].route_[k][1] = n

\* C4: a query from a registered stop to itself finds a route with no segments and total
\* time 0.
C4_SameStopEmptyRoute ==
    (AskedKnown /\ Value(last).from = Value(last).to) =>
        /\ Value(last).route_data = Some(<<>>)
        /\ Value(last).response = [items |-> <<>>, total_time |-> Zero]

\* The stop is on a route that leaves it and comes back to it.
C4_Witness ==
    /\ AskedKnown
    /\ Value(last).from = Value(last).to
    /\ PathWeights(Value(router).graph_, ArrivalOf(Value(last).from) + 1,
                   ArrivalOf(Value(last).from)) # {}


\* ------------------------------------------------- claims about the graph
Graph == Value(router).graph_
EdgeInfo(e) == Value(router).edge_info_[e + 1]
DepartureOf(name) == ArrivalOf(name) + 1

RECURSIVE SumOf(_, _)
SumOf(f, S) == IF S = {} THEN 0 ELSE LET x == CHOOSE y \in S : TRUE IN f[x] + SumOf(f, S \ {x})

\* Positions i < j (counted from 0) of a route of n stops that get a ride edge.
RidePositions(n) ==
    {p \in (0 .. (n - 1)) \X (0 .. (n - 1)) : p[1] < p[2] /\ p[2] - p[1] <= MAX_ROUTE_SPANS}

RideBuses == {b \in DOMAIN bus_routes_ : Len(bus_routes_[b].route_) >= 2}
StopAt(b, k) == bus_routes_[b].route_[k + 1]
Stride(b) == IF bus_routes_[b].is_roundtrip_ THEN 1 ELSE 2
BusRank(b) == CHOOSE k \in DOMAIN BusOrder : BusOrder[k] = b

\* The id of the forward edge of bus b for positions (i, j): after the Wait edges, the
\* edges of the buses of smaller name and the edges of the positions visited earlier.
ForwardEdgeId(b, i, j) ==
    LET earlier == {c \in RideBuses : BusRank(c) < BusRank(b)}
        count == [c \in earlier |-> Stride(c) * Cardinality(RidePositions(Len(bus_routes_[c].route_)))]
        before == {p \in RidePositions(Len(bus_routes_[b].route_)) :
                      p[1] < i \/ (p[1] = i /\ p[2] < j)}
    IN Cardinality(Registered) + SumOf(count, earlier) + Stride(b) * Cardinality(before)

Supplied(from, to) == <<from, to>> \in DOMAIN stop_to_near_stop_

\* The road distance of one hop: the entry of that direction, else the opposite one.
HopDistance(from, to) ==
    IF Supplied(from, to) THEN stop_to_near_stop_[<<from, to>>] ELSE stop_to_near_stop_[<<to, from>>]

\* Every hop between positions i and j has an entry in one direction at least.
SpanKnown(b, i, j) ==
    \A k \in (i + 1) .. j :
       Supplied(StopAt(b, k - 1), StopAt(b, k)) \/ Supplied(StopAt(b, k), StopAt(b, k - 1))

ForwardSum(b, i, j) ==
    SumOf([k \in (i + 1) .. j |-> HopDistance(StopAt(b, k - 1), StopAt(b, k))], (i + 1) .. j)

ReverseSum(b, i, j) ==
    SumOf([k \in (i + 1) .. j |-> HopDistance(StopAt(b, k), StopAt(b, k - 1))], (i + 1) .. j)

\* time is distance divided by the speed in metres per minute, bus_velocity * 1000 / 60.
\* The double is within 2^-51 of the exact quotient, in proportion to it: the two
\* roundings of the code, of the product and of the quotient, stay within that.
IsTravelTime(time, distance) ==
    /\ time.cls = "finite"
    /\ ~time.neg
    /\ LET shift == Max(0 - time.exp, 0)
           scaled == NatShl(NatMul(time.mant, NatFromInt(Value(router).bus_velocity_ * 1000)),
                            Max(time.exp, 0))
           exact == NatShl(NatFromInt(distance * 60), shift)
           error == IF NatCmp(scaled, exact) >= 0 THEN NatSub(scaled, exact)
                    ELSE NatSub(exact, scaled)
       IN NatCmp(NatShl(error, 51), exact) <= 0

\* C5: the forward ride edge for positions i < j of a route weighs the sum of the hop
\* distances from stops[i] to stops[j], each in its own direction or else the opposite
\* one, divided by the speed per minute.
C5_ForwardRideWeight ==
    Built =>
        \A b \in RideBuses : \A p \in RidePositions(Len(bus_routes_[b].route_)) :
            LET e == ForwardEdgeId(b, p[1], p[2])
            IN /\ e \in EdgeIds(Graph)
               /\ GetEdge(Graph, e).from = DepartureOf(StopAt(b, p[1])[1])
               /\ GetEdge(Graph, e).to = ArrivalOf(StopAt(b, p[2])[1])
               /\ SpanKnown(b, p[1], p[2]) =>
                     IsTravelTime(GetEdge(Graph, e).weight, ForwardSum(b, p[1], p[2]))

\* A span of two hops: the first has its own entry, the second only the opposite one.
C5_Witness ==
    /\ Built
    /\ \E b \in RideBuses : \E p \in RidePositions(Len(bus_routes_[b].route_)) :
          /\ p[2] = p[1] + 2
          /\ Supplied(StopAt(b, p[1]), StopAt(b, p[1] + 1))
          /\ ~Supplied(StopAt(b, p[1] + 1), StopAt(b, p[2]))
          /\ Supplied(StopAt(b, p[2]), StopAt(b, p[1] + 1))
          /\ GetEdge(Graph, ForwardEdgeId(b, p[1], p[2])).weight = Frac(4, 1)

\* C6: on a route that is not a roundtrip every forward ride edge is followed by a reverse
\* edge from departure(stops[j]) to arrival(stops[i]) with the same bus name and span,
\* whose weight is the sum of the hop distances taken in the reverse direction.
C6_ReverseRideEdge ==
    Built =>
        \A b \in RideBuses : \A p \in RidePositions(Len(bus_routes_[b].route_)) :
            ~bus_routes_[b].is_roundtrip_ =>
                LET e == ForwardEdgeId(b, p[1], p[2]) + 1
                IN /\ e \in EdgeIds(Graph)
                   /\ GetEdge(Graph, e).from = DepartureOf(StopAt(b, p[2])[1])
                   /\ GetEdge(Graph, e).to = ArrivalOf(StopAt(b, p[1])[1])
                   /\ EdgeInfo(e) = RouteDataBus(b, p[2] - p[1], GetEdge(Graph, e).weight)
                   /\ EdgeInfo(e - 1).bus_name = b
                   /\ EdgeInfo(e - 1).span_count = p[2] - p[1]
                   /\ SpanKnown(b, p[1], p[2]) =>
                         IsTravelTime(GetEdge(Graph, e).weight, ReverseSum(b, p[1], p[2]))

\* Both directions of a hop were supplied with different distances, and the two edges
\* of the hop differ in weight.
C6_Witness ==
    /\ Built
    /\ \E b \in RideBuses : \E p \in RidePositions(Len(bus_routes_[b].route_)) :
          /\ ~bus_routes_[b].is_roundtrip_
          /\ p[2] = p[1] + 1
          /\ Supplied(StopAt(b, p[1]), StopAt(b, p[2]))
          /\ Supplied(StopAt(b, p[2]), StopAt(b, p[1]))
          /\ GetEdge(Graph, ForwardEdgeId(b, p[1], p[2])).weight
                # GetEdge(Graph, ForwardEdgeId(b, p[1], p[2]) + 1).weight

\* Every hop between positions i and j was supplied in the forward direction only.
ForwardOnly(b, i, j) ==
    \A k \in (i + 1) .. j :
       Supplied(StopAt(b, k - 1), StopAt(b, k)) /\ ~Supplied(StopAt(b, k), StopAt(b, k - 1))

\* C7: on a route that is not a roundtrip, when every hop of a span was supplied in the
\* forward direction only, the reverse edge weighs what the forward edge weighs: the sum
\* of the forward distances divided by the speed per minute.
C7_ReverseReusesForward ==
    Built =>
        \A b \in RideBuses : \A p \in RidePositions(Len(bus_routes_[b].route_)) :
            (~bus_routes_[b].is_roundtrip_ /\ ForwardOnly(b, p[1], p[2])) =>
                LET e == ForwardEdgeId(b, p[1], p[2])
                    forward == SumOf([k \in (p[1] + 1) .. p[2] |->
                                        stop_to_near_stop_[<<StopAt(b, k - 1), StopAt(b, k)>>]],
                                     (p[1] + 1) .. p[2])
                IN /\ GetEdge(Graph, e + 1).weight = GetEdge(Graph, e).weight
                   /\ IsTravelTime(GetEdge(Graph, e + 1).weight, forward)
                   /\ EdgeInfo(e + 1).time = GetEdge(Graph, e + 1).weight

\* The route A-B-C with A->B = 100 and B->C = 100 and nothing else: the edge from C back
\* to A takes 200 m at 100 m per minute.
C7_Witness ==
    /\ Built
    /\ \E b \in RideBuses :
          /\ ~bus_routes_[b].is_roundtrip_
          /\ bus_routes_[b].route_ = << <<"A", 1>>, <<"B", 1>>, <<"C", 1>> >>
          /\ ForwardOnly(b, 0, 2)
          /\ GetEdge(Graph, ForwardEdgeId(b, 0, 2) + 1).weight = Frac(2, 1)
          /\ GetEdge(Graph, ForwardEdgeId(b, 0, 2) + 1).from = DepartureOf("C")
          /\ GetEdge(Graph, ForwardEdgeId(b, 0, 2) + 1).to = ArrivalOf("A")

\* C8: a router is built only if every two consecutive, different stops of every route
\* have a road distance in one direction at least.
C8_MissingDistanceAbortsBuild ==
    Built =>
        \A b \in RideBuses : \A k \in 1 .. (Len(bus_routes_[b].route_) - 1) :
            StopAt(b, k - 1) # StopAt(b, k) => SpanKnown(b, k - 1, k)

\* C9: a router is built only from a positive wait time and a positive speed.
C9_NonPositiveSettingsAbortBuild ==
    Built =>
        /\ TimeLess(Zero, Value(router).bus_wait_time_)
        /\ Value(router).bus_velocity_ > 0

\* C10: every registered stop has exactly one Wait edge; it leads from the stop's arrival
\* vertex to its departure vertex, weighs the configured wait time and carries the stop's
\* name; every Wait edge is the Wait edge of a registered stop.
C10_OneWaitEdgePerStop ==
    Built =>
        LET waits == {e \in EdgeIds(Graph) : EdgeInfo(e).type = "Wait"}
        IN /\ Len(Value(router).edge_info_) = Len(Graph.edges)
           /\ DOMAIN Value(router).stop_ids_ = Registered
           /\ \A S \in Registered :
                 \E e \in waits :
                    /\ \A x \in waits : EdgeInfo(x).stop_name = S => x = e
                    /\ EdgeInfo(e) = RouteDataWait(S, Value(router).bus_wait_time_)
                    /\ GetEdge(Graph, e) = [from |-> ArrivalOf(S), to |-> DepartureOf(S),
                                            weight |-> Value(router).bus_wait_time_]
           /\ \A e \in waits :
                 /\ EdgeInfo(e).stop_name \in Registered
                 /\ Value(router).vertex_to_stop_name_[GetEdge(Graph, e).from]
                       = Value(router).vertex_to_stop_name_[GetEdge(Graph, e).to]

\* Three stops and a bus between them: three Wait edges beside the ride edges.
C10_Witness ==
    /\ Built
    /\ Cardinality(Registered) = 3
    /\ Len(Graph.edges) > 3
    /\ Value(router).bus_wait_time_ = Frac(6, 1)

\* --------------------------------------------- claims about the invariants
\* The number of registered names that sort before name.
StopRank(name) ==
    Cardinality({n \in Registered :
        (CHOOSE k \in DOMAIN StopOrder : StopOrder[k] = n)
            < (CHOOSE k \in DOMAIN StopOrder : StopOrder[k] = name)})

\* C11: the stop of rank k in the name-sorted order has arrival vertex 2k and departure
\* vertex 2k + 1 (the end of its Wait edge), both named after it; the graph has twice as
\* many vertices as there are stop names, and no two names share an arrival vertex.
C11_VertexIdsFollowSortedStops ==
    Built =>
        /\ Graph.vertex_count = 2 * Cardinality(Registered)
        /\ DOMAIN Value(router).stop_ids_ = Registered
        /\ DOMAIN Value(router).vertex_to_stop_name_ = Vertices(Graph)
        /\ \A n \in Registered :
              /\ Value(router).stop_ids_[n] = 2 * StopRank(n)
              /\ GetEdge(Graph, StopRank(n)).from = 2 * StopRank(n)
              /\ GetEdge(Graph, StopRank(n)).to = 2 * StopRank(n) + 1
              /\ Value(router).vertex_to_stop_name_[2 * StopRank(n)] = n
              /\ Value(router).vertex_to_stop_name_[2 * StopRank(n) + 1] = n
        /\ \A m \in Registered : \A n \in Registered \ {m} :
              Value(router).stop_ids_[m] # Value(router).stop_ids_[n]

\* Stops A and C without B: C is second in the sorted order and gets vertices 2 and 3.
C11_Witness ==
    /\ Built
    /\ Registered = {"A", "C"}
    /\ Value(router).stop_ids_["C"] = 2
    /\ Graph.vertex_count = 4

\* The number of edges stage 2 adds for bus b.
RideEdgeCount(b) == Stride(b) * Cardinality(RidePositions(Len(bus_routes_[b].route_)))

\* C12: the segment table has one entry per edge and entry e describes edge e: the Wait
\* edges come first in sorted stop order, then the ride edges by bus name, start position
\* and end position, each forward edge of a route that is not a roundtrip followed by its
\* reverse edge; every edge id of a found route is an index of the table.
C12_SegmentTableInLockstep ==
    Built =>
        /\ Len(Value(router).edge_info_) = Len(Graph.edges)
        /\ Len(Graph.edges) =
              Cardinality(Registered) + SumOf([b \in RideBuses |-> RideEdgeCount(b)], RideBuses)
        /\ \A n \in Registered :
              /\ EdgeInfo(StopRank(n)) = RouteDataWait(n, GetEdge(Graph, StopRank(n)).weight)
              /\ GetEdge(Graph, StopRank(n)).from = ArrivalOf(n)
              /\ GetEdge(Graph, StopRank(n)).to = DepartureOf(n)
        /\ \A b \in RideBuses : \A p \in RidePositions(Len(bus_routes_[b].route_)) :
              LET e == ForwardEdgeId(b, p[1], p[2])
              IN /\ EdgeInfo(e) = RouteDataBus(b, p[2] - p[1], GetEdge(Graph, e).weight)
                 /\ GetEdge(Graph, e).from = DepartureOf(StopAt(b, p[1])[1])
                 /\ GetEdge(Graph, e).to = ArrivalOf(StopAt(b, p[2])[1])
                 /\ ~bus_routes_[b].is_roundtrip_ =>
                       /\ EdgeInfo(e + 1) =
                             RouteDataBus(b, p[2] - p[1], GetEdge(Graph, e + 1).weight)
                       /\ GetEdge(Graph, e + 1).from = DepartureOf(StopAt(b, p[2])[1])
                       /\ GetEdge(Graph, e + 1).to = ArrivalOf(StopAt(b, p[1])[1])
        /\ (Asked /\ Value(last).route_info # NullOpt) =>
              \A k \in DOMAIN Value(Value(last).route_info).edges :
                 Value(Value(last).route_info).edges[k] \in 0 .. (Len(Value(router).edge_info_) - 1)

\* Bus X of three stops, not a roundtrip, takes ids 3 to 8; bus Y follows from id 9; a
\* found route ends with the last edge of the table.
C12_Witness ==
    /\ Asked
    /\ {"X", "Y"} \subseteq RideBuses
    /\ ~bus_routes_["X"].is_roundtrip_
    /\ Len(bus_routes_["X"].route_) = 3
    /\ ForwardEdgeId("Y", 0, 1) = 9
    /\ EdgeInfo(9).bus_name = "Y"
    /\ EdgeInfo(5).span_count = 2
    /\ Value(last).route_info # NullOpt
    /\ \E k \in DOMAIN Value(Value(last).route_info).edges :
          Value(Value(last).route_info).edges[k] = Len(Graph.edges) - 1

\* C13: a found route has as many segments as the engine's edge sequence has edges, and
\* its k-th segment is the segment-table entry of the k-th edge id; the response lists
\* the segments in that order.
C13_SegmentsFollowPath ==
    (Asked /\ Value(last).route_info # NullOpt) =>
        LET edges == Value(Value(last).route_info).edges
        IN /\ Value(last).route_data # NullOpt
           /\ Len(Value(Value(last).route_data)) = Len(edges)
           /\ \A k \in 1 .. Len(edges) : Value(Value(last).route_data)[k] = EdgeInfo(edges[k])
           /\ Len(Value(last).response.items) = Len(edges)
           /\ \A k \in 1 .. Len(edges) :
                 /\ Value(last).response.items[k].type = EdgeInfo(edges[k]).type
                 /\ Value(last).response.items[k].time = EdgeInfo(edges[k]).time

\* A route of four edges: wait, ride, wait at the stop in between, ride.
C13_Witness ==
    /\ Asked
    /\ Value(last).route_data # NullOpt
    /\ Len(Value(Value(last).route_data)) = 4
    /\ Value(Value(last).route_data)[1].type = "Wait"
    /\ Value(Value(last).route_data)[2].type = "Bus"
    /\ Value(Value(last).route_data)[3].type = "Wait"
    /\ Value(Value(last).route_data)[3].stop_name # Value(Value(last).route_data)[1].stop_name

\* The weights of the edges of a path, added up from the first edge to the last.
RECURSIVE PathWeight(_)
PathWeight(edges) ==
    IF Len(edges) = 0 THEN Zero
    ELSE TimeAdd(PathWeight(SubSeq(edges, 1, Len(edges) - 1)),
                 GetEdge(Graph, edges[Len(edges)]).weight)

\* The times of the items of a response, added up from the first item to the last.
RECURSIVE ItemsTime(_)
ItemsTime(items) ==
    IF Len(items) = 0 THEN Zero
    ELSE TimeAdd(ItemsTime(SubSeq(items, 1, Len(items) - 1)), items[Len(items)].time)

\* C14: every segment-table entry lasts what its edge weighs, so the total time reported
\* for a found route is the sum of its segments' durations, which is the sum of the
\* weights of the edges of the path the engine chose.
C14_TotalTimeIsPathWeight ==
    /\ Built => \A e \in EdgeIds(Graph) : EdgeInfo(e).time = GetEdge(Graph, e).weight
    /\ (Asked /\ Value(last).route_info # NullOpt) =>
          /\ Value(last).response.total_time = ItemsTime(Value(last).response.items)
          /\ Value(last).response.total_time = PathWeight(Value(Value(last).route_info).edges)

\* Wait 6, ride 0.1, wait 6, ride 0.2 over four segments: added up in this order and
\* rounded at every step the total is 12.299999999999999, not the double nearest to 12.3.
C14_Witness ==
    /\ Asked
    /\ Value(last).route_data # NullOpt
    /\ Len(Value(last).response.items) = 4
    /\ Value(last).response.items[2].time = Frac(1, 10)
    /\ Value(last).response.items[4].time = Frac(1, 5)
    /\ Value(last).response.total_time =
          TimeAdd(TimeAdd(TimeAdd(FromInt(6), Frac(1, 10)), FromInt(6)), Frac(1, 5))
    /\ Value(last).response.total_time # Frac(123, 10)
    /\ TimeLess(Value(last).response.total_time, Frac(123, 10))

\* C15: with roundtrip bus X running from a stop straight to the next one and no other
\* bus, the query from the first to the second answers Wait(first, wait time) and then
\* Ride(X, 1 span, distance / speed), and the total is their sum: wait 6 and a ride of
\* 7 minutes give 13.
C15_WaitThenRideScenario ==
    (Asked /\ DOMAIN bus_routes_ = {"X"} /\ bus_routes_["X"].is_roundtrip_) =>
        \A S \in Registered : \A T \in Registered \ {S} :
            (/\ bus_routes_["X"].route_ \in {<< <<S, 1>>, <<T, 1>> >>,
                                              << <<S, 1>>, <<T, 1>>, <<S, 1>> >>}
             /\ Value(last).from = S
             /\ Value(last).to = T) =>
                LET ride == Value(last).response.items[2].time
                IN /\ DOMAIN Value(last).response = {"items", "total_time"}
                   /\ Len(Value(last).response.items) = 2
                   /\ Value(last).response.items[1] =
                         [type |-> "Wait", stop_name |-> S, time |-> Value(router).bus_wait_time_]
                   /\ Value(last).response.items[2] =
                         [type |-> "Bus", bus |-> "X", span_count |-> 1, time |-> ride]
                   /\ IsTravelTime(ride, HopDistance(<<S, 1>>, <<T, 1>>))
                   /\ Value(last).response.total_time =
                         TimeAdd(Value(router).bus_wait_time_, ride)
                   /\ Value(router).bus_wait_time_ = Frac(6, 1)
                   /\ ride = Frac(7, 1)
                   /\ Value(last).response.total_time = Frac(13, 1)

\* Bus X runs A, B as a roundtrip and the query asks for the way from A to B.
C15_Witness ==
    /\ Asked
    /\ DOMAIN bus_routes_ = {"X"}
    /\ bus_routes_["X"] = [route_ |-> << <<"A", 1>>, <<"B", 1>> >>, is_roundtrip_ |-> TRUE]
    /\ Value(last).from = "A"
    /\ Value(last).to = "B"
    /\ Value(last).response.total_time = Frac(13, 1)

\* The ride edges of bus b: the entries of the segment table that carry its name.
RideEdgesOf(b) ==
    SelectSeq(Value(router).edge_info_, LAMBDA d : d.type = "Bus" /\ d.bus_name = b)

\* C16: a route whose stored sequence has N stops contributes at most N * MAX_ROUTE_SPANS
\* ride edges, roundtrip or not.
C16_RideEdgesWithinFanOut ==
    Built =>
        \A b \in DOMAIN bus_routes_ :
            Len(RideEdgesOf(b)) <= Len(bus_routes_[b].route_) * MAX_ROUTE_SPANS

\* The pairs <<from, to>> of vertices joined by a Wait edge.
WaitLinks == {<<ArrivalOf(n), DepartureOf(n)>> : n \in Registered}

\* The pairs of vertices joined by the ride edges the loops add under a bound on j - i.
RideLinks(max_spans) ==
    UNION {LET pairs == RidePairsWithin(Len(bus_routes_[b].route_), max_spans)
           IN UNION {{<<DepartureOf(StopAt(b, pairs[k][1])[1]), ArrivalOf(StopAt(b, pairs[k][2])[1])>>}
                     \cup (IF bus_routes_[b].is_roundtrip_ THEN {}
                           ELSE {<<DepartureOf(StopAt(b, pairs[k][2])[1]),
                                   ArrivalOf(StopAt(b, pairs[k][1])[1])>>}) :
                     k \in DOMAIN pairs} :
           b \in RideBuses}

\* The vertices that chains of links lead to from the vertices of seen.
RECURSIVE Reach(_, _)
Reach(links, seen) ==
    LET more == seen \cup {l[2] : l \in {x \in links : x[1] \in seen}}
    IN IF more = seen THEN seen ELSE Reach(links, more)

\* The greatest number of stops of a stored route.
LongestRoute ==
    IF RideBuses = {} THEN 2
    ELSE CHOOSE n \in {Len(bus_routes_[b].route_) : b \in RideBuses} :
            \A b \in RideBuses : Len(bus_routes_[b].route_) <= n

\* C17: the bound on the span does not change which stops can be reached: for every
\* bound M >= 1 and all stops A and B, arrival(B) is reachable from arrival(A) in the graph
\* built with spans up to M exactly if it is reachable in the graph built with every pair
\* i < j; the graph of the router is the one for M = MAX_ROUTE_SPANS.
C17_SpanBoundKeepsReachability ==
    Built =>
        /\ {<<GetEdge(Graph, e).from, GetEdge(Graph, e).to>> : e \in EdgeIds(Graph)}
              = WaitLinks \cup RideLinks(MAX_ROUTE_SPANS)
        /\ \A max_spans \in 1 .. LongestRoute : \A A \in Registered :
              LET bounded == Reach(WaitLinks \cup RideLinks(max_spans), {ArrivalOf(A)})
                  unbounded == Reach(WaitLinks \cup RideLinks(LongestRoute), {ArrivalOf(A)})
              IN \A B \in Registered : ArrivalOf(B) \in bounded <=> ArrivalOf(B) \in unbounded

\* Route A, B, C: with spans of one hop only there is no edge from A to C, yet C is
\* reached from A by riding to B and boarding again.
C17_Witness ==
    /\ Built
    /\ \E b \in RideBuses :
          /\ bus_routes_[b].route_ = << <<"A", 1>>, <<"B", 1>>, <<"C", 1>> >>
          /\ bus_routes_[b].is_roundtrip_
    /\ <<DepartureOf("A"), ArrivalOf("C")>> \notin RideLinks(1)
    /\ <<DepartureOf("A"), ArrivalOf("C")>> \in RideLinks(MAX_ROUTE_SPANS)
    /\ ArrivalOf("C") \in Reach(WaitLinks \cup RideLinks(1), {ArrivalOf("A")})
    /\ ArrivalOf("A") \notin Reach(WaitLinks \cup RideLinks(1), {ArrivalOf("C")})

\* C18: a roundtrip route has no reverse edges: each position pair i < j within the span
\* bound yields one ride edge, from departure(stops[i]) to arrival(stops[j]), and the
\* route has no other ride edges.
C18_RoundtripHasNoReverseEdges ==
    Built =>
        \A b \in RideBuses :
            bus_routes_[b].is_roundtrip_ =>
                LET positions == RidePositions(Len(bus_routes_[b].route_))
                IN /\ Len(RideEdgesOf(b)) = Cardinality(positions)
                   /\ \A p \in positions : \A q \in positions :
                         p # q => ForwardEdgeId(b, p[1], p[2]) # ForwardEdgeId(b, q[1], q[2])
                   /\ \A p \in positions :
                         LET e == ForwardEdgeId(b, p[1], p[2])
                         IN /\ EdgeInfo(e).type = "Bus"
                            /\ EdgeInfo(e).bus_name = b
                            /\ EdgeInfo(e).span_count = p[2] - p[1]
                            /\ GetEdge(Graph, e).from = DepartureOf(StopAt(b, p[1])[1])
                            /\ GetEdge(Graph, e).to = ArrivalOf(StopAt(b, p[2])[1])

\* Roundtrip route A, B, C: three ride edges, none of them leaves C, and no route leads
\* from C to A.
C18_Witness ==
    /\ Built
    /\ \E b \in RideBuses :
          /\ bus_routes_[b].is_roundtrip_
          /\ bus_routes_[b].route_ = << <<"A", 1>>, <<"B", 1>>, <<"C", 1>> >>
          /\ Len(RideEdgesOf(b)) = 3
    /\ \A e \in EdgeIds(Graph) : GetEdge(Graph, e).from # DepartureOf("C")
    /\ Asked
    /\ Value(last).from = "C"
    /\ Value(last).to = "A"
    /\ Value(last).route_data = NullOpt

\* C19: a route stored with fewer than 2 stops has no ride edges: the graph and the
\* segment table hold the Wait edges and the edges of the routes of 2 stops or more, as
\* if the short route were absent.
C19_ShortRouteHasNoEdges ==
    Built =>
        /\ \A b \in DOMAIN bus_routes_ :
              Len(bus_routes_[b].route_) < 2 => Len(RideEdgesOf(b)) = 0
        /\ Len(Graph.edges) =
              Cardinality(Registered) + SumOf([b \in RideBuses |-> RideEdgeCount(b)], RideBuses)
        /\ Len(Value(router).edge_info_) = Len(Graph.edges)
        /\ \A e \in EdgeIds(Graph) :
              EdgeInfo(e).type = "Bus" => EdgeInfo(e).bus_name \in RideBuses
        /\ \A b \in RideBuses : EdgeInfo(ForwardEdgeId(b, 0, 1)).bus_name = b

\* Bus X has the single stop B, bus Y runs A, C: the edges of Y follow the three Wait edges.
C19_Witness ==
    /\ Built
    /\ DOMAIN bus_routes_ = {"X", "Y"}
    /\ bus_routes_["X"].route_ = << <<"B", 1>> >>
    /\ Len(bus_routes_["Y"].route_) = 2
    /\ EdgeInfo(3).bus_name = "Y"
    /\ Len(Graph.edges) = 3 + RideEdgeCount("Y")

\* C20: a query changes neither the graph, the segment table, the stop-name -> vertex map
\* nor any other field of the router or the catalogue, and its answer is what BuildRoute
\* and the request layer compute from the router and the two names alone, whatever was
\* asked before.
C20_QueriesLeaveRouterUnchanged ==
    [][Built =>
          /\ router' = router
          /\ <<stops_, stopname_to_stop_, stop_to_near_stop_, bus_routes_>>' =
                <<stops_, stopname_to_stop_, stop_to_near_stop_, bus_routes_>>
          /\ last' # NullOpt
          /\ Value(last').route_data =
                BuildRoute(Value(router), Value(last').from, Value(last').to)
          /\ Value(last').response =
                ProcessOneStatRequest(Value(router), Value(last').from, Value(last').to)]_vars

\* A route was found to a stop that no route leads to from some other stop: the same
\* router gives answers of both kinds for this destination.
C20_Witness ==
    /\ AskedKnown
    /\ Value(last).route_data # NullOpt
    /\ Len(Value(Value(last).route_data)) = 2
    /\ \E n \in Registered :
          FindRoute(Value(router), n, Value(last).to) = NullOpt

\* ------------------------------------------------ claims about the readers
\* C21: readers that query the built router at the same time share no mutable state:
\* each step of a reader changes the locals of that reader only, the router and the
\* catalogue stay as they are, and under every interleaving a call returns what
\* BuildRoute returns for its two names when it runs alone.
C21_ConcurrentQueriesAreIsolated ==
    [][/\ Built => router' = router
       /\ \A r \in Readers :
             readers'[r] # readers[r] => \A x \in Readers \ {r} : readers'[x] = readers[x]
       /\ \A r \in Readers :
             readers'[r].pc = "done" =>
                readers'[r].result = BuildRoute(Value(router), readers'[r].from, readers'[r].to)]_vars

\* One reader has returned a route of four segments while the other is in the middle
\* of translating a route of its own.
C21_Witness ==
    /\ Built
    /\ readers["r1"].pc = "done"
    /\ readers["r1"].result # NullOpt
    /\ Len(Value(readers["r1"].result)) = 4
    /\ readers["r2"].pc = "translate"
    /\ Len(readers["r2"].route) = 1
    /\ readers["r2"].from # readers["r1"].from

\* The moves of a call between its steps.
QuerySteps ==
    {<<"idle", "resolve">>, <<"resolve", "engine">>, <<"resolve", "done">>,
     <<"engine", "translate">>, <<"engine", "done">>, <<"translate", "translate">>,
     <<"translate", "done">>, <<"done", "idle">>}

\* C23: a query runs to completion: from the step that resolves the names it moves only
\* along Resolve -> Run shortest path -> Translate, it reaches the terminal step, and
\* there it has the absent result (a name is unknown or the stop cannot be reached) or
\* else the translated segment list, one segment per edge of the path.
C23_QueryRunsToCompletion ==
    /\ \A r \in Readers :
          (readers[r].pc \in {"resolve", "engine", "translate"}) ~> (readers[r].pc = "done")
    /\ [][\A r \in Readers :
             readers'[r] # readers[r] => <<readers[r].pc, readers'[r].pc>> \in QuerySteps]_vars
    /\ [](\A r \in Readers :
             readers[r].pc = "done" =>
                LET me == readers[r]
                    known == me.from \in Registered /\ me.to \in Registered
                    reachable ==
                        known /\ PathWeights(Graph, ArrivalOf(me.from), ArrivalOf(me.to)) # {}
                IN /\ me.result = NullOpt <=> ~reachable
                   /\ reachable =>
                         /\ me.route_info # NullOpt
                         /\ Value(me.result) = Translate(Value(router), Value(me.route_info).edges))

\* All three ends of a query at once would need three readers; here one reader ended
\* with the absent result for a stop that cannot be reached and the other with a route.
C23_Witness ==
    /\ Built
    /\ readers["r1"].pc = "done"
    /\ readers["r1"].from \in Registered
    /\ readers["r1"].to \in Registered
    /\ readers["r1"].result = NullOpt
    /\ readers["r2"].pc = "done"
    /\ readers["r2"].result # NullOpt
    /\ Len(Value(readers["r2"].result)) >= 2

\* ------------------------------------------------- claims about the program
Catalogue == <<stops_, stopname_to_stop_, stop_to_near_stop_, bus_routes_>>
Failed == phase \in {"failed_buses", "failed_settings"}

\* C22: the router is constructed once, after the stops, then the distances, then the
\* buses were applied and before any stat request; after the build neither the catalogue
\* nor the router changes; a run in which loading or the settings raised an error builds
\* no router and serves no query.
C22_BuildOnceBeforeQueries ==
    /\ [](Asked => Built)
    /\ [](Built <=> phase = "built")
    /\ [](Failed => ~Built /\ ~Asked)
    /\ [][/\ router' # router => router = NullOpt /\ last = NullOpt /\ Catalogue' = Catalogue
          /\ Built => router' = router /\ Catalogue' = Catalogue
          /\ Failed => UNCHANGED vars
          /\ last' # last => Built /\ router' = router
          /\ <<stops_, stopname_to_stop_>>' # <<stops_, stopname_to_stop_>> =>
                phase = "stops" /\ stop_to_near_stop_ = NoMap /\ bus_routes_ = NoMap
          /\ stop_to_near_stop_' # stop_to_near_stop_ =>
                phase \in {"stops", "distances"} /\ bus_routes_ = NoMap
          /\ bus_routes_' # bus_routes_ => router = NullOpt]_vars

\* A query was answered by a router built from a catalogue with stops, a distance and
\* a bus.
C22_Witness ==
    /\ Asked
    /\ Cardinality(Registered) = 3
    /\ stop_to_near_stop_ # NoMap
    /\ RideBuses # {}
    /\ Value(last).route_data # NullOpt
    /\ Len(Value(Value(last).route_data)) = 2

\* C26: a Bus request whose array of stops is empty, or holds no strings, is skipped
\* without an error, roundtrip or not: loading the buses never ends in the catch clause.
C26_EmptyBusRequestIsSkipped == phase # "failed_buses"

\* The sum of the weights of the edges of a graph.
RECURSIVE WeightSum(_)
WeightSum(edges) ==
    IF Len(edges) = 0 THEN Zero
    ELSE TimeAdd(WeightSum(SubSeq(edges, 1, Len(edges) - 1)), edges[Len(edges)].weight)

\* C24: building again from the same catalogue and the same settings gives the same
\* graph and tables, in whatever order the catalogue's unordered maps hand out the
\* stops and the buses: the same number of edges, the same sum of weights, and the same
\* from, to, weight and segment description at every edge id.  (Compared when the router
\* has been built and no query has been made yet; queries change neither the catalogue
\* nor the router.)
C24_BuildIsDeterministic ==
    (Built /\ ~Asked) =>
        \A stop_order \in Orders(Registered) : \A bus_order \in Orders(DOMAIN bus_routes_) :
            LET again == RouterTables(GetAllSortedStopsOf(stop_order),
                                      GetAllSortedBusesOf(bus_order),
                                      Value(router).bus_wait_time_,
                                      Value(router).bus_velocity_)
            IN /\ Len(again.graph_.edges) = Len(Graph.edges)
               /\ WeightSum(again.graph_.edges) = WeightSum(Graph.edges)
               /\ \A e \in EdgeIds(Graph) :
                     /\ GetEdge(again.graph_, e) = GetEdge(Graph, e)
                     /\ again.edge_info_[e + 1] = EdgeInfo(e)
               /\ again.stop_ids_ = Value(router).stop_ids_
               /\ again.vertex_to_stop_name_ = Value(router).vertex_to_stop_name_

\* Three stops and two buses with rides: six orders of the stops and two of the buses
\* lead to the one graph.
C24_Witness ==
    /\ Built
    /\ ~Asked
    /\ Cardinality(Orders(Registered)) = 6
    /\ Cardinality(Orders(DOMAIN bus_routes_)) = 2
    /\ RideBuses = {"X", "Y"}
    /\ WeightSum(Graph.edges) # Zero
    /\ Len(Graph.edges) >= 7

\* The graph the two stages of the constructor build with a bound max_spans on j - i.
GraphWithin(max_spans) ==
    LET all_stops == GetAllSortedStops
        all_buses == GetAllSortedBuses
        stop_ids == StopIds(all_stops)
        rides == [b \in DOMAIN all_buses |->
                    LET bus == bus_routes_[all_buses[b]]
                        pairs == RidePairsWithin(Len(bus.route_), max_spans)
                    IN IF Len(bus.route_) < 2 THEN <<>>
                       ELSE [p \in DOMAIN pairs |->
                               RideStep(stop_ids, all_buses[b], bus, pairs[p][1], pairs[p][2],
                                        Value(router).bus_velocity_)]]
        steps == [i \in DOMAIN all_stops |->
                    WaitStep(all_stops, i, Value(router).bus_wait_time_)]
                 \o Concat(rides)
    IN [vertex_count |-> 2 * Len(all_stops),
        edges |-> Concat([s \in DOMAIN steps |-> steps[s].edges])]

\* The least total times of the journeys from stop A to stop B in a graph: one time, or
\* none where no path joins them.
LeastTimes(graph, A, B) ==
    LET times == PathWeights(graph, ArrivalOf(A), ArrivalOf(B))
    IN {w \in times : IsLeast(w, times)}

\* C25: the bound on the span does not change the shortest time: for every bound M >= 1
\* and all stops A and B, the least total time from A to B in the graph built with spans
\* up to M equals the least total time in the graph built with every pair i < j; the
\* graph of the router is the one for M = MAX_ROUTE_SPANS.
C25_SpanBoundKeepsShortestTime ==
    Built =>
        /\ GraphWithin(MAX_ROUTE_SPANS) = Graph
        /\ \A max_spans \in 1 .. LongestRoute : \A A \in Registered : \A B \in Registered :
              LeastTimes(GraphWithin(max_spans), A, B)
                  = LeastTimes(GraphWithin(LongestRoute), A, B)

\* C27: Wait edges lead from an arrival vertex to the departure vertex of the same stop,
\* ride edges from a departure vertex to an arrival vertex; so every non-empty list of
\* segments a query returns has even length and alternates Wait, Bus, Wait, Bus, ...:
\* it starts with a Wait segment and ends with a Bus segment.
C27_SegmentsAlternate ==
    /\ Built =>
          \A e \in EdgeIds(Graph) :
              IF EdgeInfo(e).type = "Wait"
              THEN /\ GetEdge(Graph, e).from % 2 = 0
                   /\ GetEdge(Graph, e).to = GetEdge(Graph, e).from + 1
              ELSE /\ EdgeInfo(e).type = "Bus"
                   /\ GetEdge(Graph, e).from % 2 = 1
                   /\ GetEdge(Graph, e).to % 2 = 0
    /\ (Asked /\ Value(last).route_data # NullOpt) =>
          LET route == Value(Value(last).route_data)
          IN Len(route) > 0 =>
                /\ Len(route) % 2 = 0
                /\ route[1].type = "Wait"
                /\ route[Len(route)].type = "Bus"
                /\ \A k \in DOMAIN route :
                      route[k].type = IF k % 2 = 1 THEN "Wait" ELSE "Bus"

\* A journey on two buses: wait, ride on one bus, wait, ride on the other.
C27_Witness ==
    /\ Asked
    /\ Value(last).route_data # NullOpt
    /\ Len(Value(Value(last).route_data)) = 4
    /\ Value(Value(last).route_data)[4].type = "Bus"
    /\ Value(Value(last).route_data)[2].bus_name # Value(Value(last).route_data)[4].bus_name

\* C28: the answer to a query between two different stops starts with a Wait segment
\* that names the origin, and every later Wait segment names the stop at whose arrival
\* vertex the edge of the Bus segment before it ends.
C28_WaitNamesBoardingStop ==
    (Asked /\ Value(last).from # Value(last).to /\ Value(last).route_data # NullOpt) =>
        LET route == Value(Value(last).route_data)
            edges == Value(Value(last).route_info).edges
        IN /\ Len(route) > 0
           /\ route[1].type = "Wait"
           /\ route[1].stop_name = Value(last).from
           /\ \A k \in 2 .. Len(route) :
                 route[k].type = "Wait" =>
                    /\ route[k - 1].type = "Bus"
                    /\ route[k].stop_name \in Registered
                    /\ ArrivalOf(route[k].stop_name) = GetEdge(Graph, edges[k - 1]).to

\* A journey with a change at a stop that is neither the origin nor the destination.
C28_Witness ==
    /\ Asked
    /\ Value(last).from # Value(last).to
    /\ Value(last).route_data # NullOpt
    /\ Len(Value(Value(last).route_data)) = 4
    /\ Value(Value(last).route_data)[1].stop_name = Value(last).from
    /\ Value(Value(last).route_data)[3].type = "Wait"
    /\ Value(Value(last).route_data)[3].stop_name \notin {Value(last).from, Value(last).to}

\* C29: whatever calls of AddStop, AddDistance and AddRoute were made and in whatever
\* order, every stop of every stored route is a stop that AddStop created and whose name
\* is registered; so the router that is built has a vertex for the name of every stop
\* of every route, and the lookup of stage 2 finds it.
C29_RouteStopsAreRegistered ==
    /\ \A b \in DOMAIN bus_routes_ : \A k \in DOMAIN bus_routes_[b].route_ :
          LET stop == bus_routes_[b].route_[k]
          IN /\ stop[1] \in Registered
             /\ stop[2] \in 1 .. stops_[stop[1]]
    /\ Built =>
          \A b \in DOMAIN bus_routes_ : \A k \in DOMAIN bus_routes_[b].route_ :
              bus_routes_[b].route_[k][1] \in DOMAIN Value(router).stop_ids_

\* A route added between two calls of AddStop with the name A: the route holds the
\* first stop of that name, the name is registered to the second, and the router has
\* the ride edges of the route.
C29_Witness ==
    /\ Built
    /\ "X" \in DOMAIN bus_routes_
    /\ bus_routes_["X"].route_ = << <<"A", 1>>, <<"B", 1>> >>
    /\ stopname_to_stop_["A"] = <<"A", 2>>
    /\ "C" \notin Registered
    /\ Len(Graph.edges) > Cardinality(Registered)

\* A Wait or a Bus segment with the fields the two factories of RouteData give it.
WellFormedSegment(d) ==
    IF d.type = "Wait"
    THEN d.span_count = 0 /\ d.bus_name = ""
    ELSE /\ d.type = "Bus"
         /\ d.span_count \in 1 .. MAX_ROUTE_SPANS
         /\ d.stop_name = ""

\* C30: every Wait entry of the segment table has span_count 0 and no bus name; every
\* Bus entry has the type "Bus", no stop name and a span_count from 1 to MAX_ROUTE_SPANS
\* that is j - i of its position pair: its edge joins two stops span_count positions
\* apart on the route, and a route of N stops has, for each d up to the bound, one entry
\* of span d per pair i, i + d in each direction it is ridden. The segments of an
\* answer, being entries of the table, have the same form.
C30_SegmentFieldsWithinBounds ==
    Built =>
        /\ \A e \in EdgeIds(Graph) : WellFormedSegment(EdgeInfo(e))
        /\ \A e \in EdgeIds(Graph) :
              EdgeInfo(e).type = "Bus" =>
                 LET b == EdgeInfo(e).bus_name
                     d == EdgeInfo(e).span_count
                     ends == {Value(router).vertex_to_stop_name_[GetEdge(Graph, e).from],
                              Value(router).vertex_to_stop_name_[GetEdge(Graph, e).to]}
                 IN /\ b \in RideBuses
                    /\ \E i \in 0 .. (Len(bus_routes_[b].route_) - 1 - d) :
                          {StopAt(b, i)[1], StopAt(b, i + d)[1]} = ends
        /\ \A b \in DOMAIN bus_routes_ :
              LET entries == RideEdgesOf(b)
                  size == Len(bus_routes_[b].route_)
              IN \A d \in 1 .. (MAX_ROUTE_SPANS + 1) :
                    Len(SelectSeq(entries, LAMBDA x : x.span_count = d))
                       = IF d <= MAX_ROUTE_SPANS /\ d < size THEN Stride(b) * (size - d) ELSE 0
        /\ (Asked /\ Value(last).route_data # NullOpt) =>
              \A k \in DOMAIN Value(Value(last).route_data) :
                 WellFormedSegment(Value(Value(last).route_data)[k])

\* A route of MAX_ROUTE_SPANS + 2 stops: its first and last stop are MAX_ROUTE_SPANS + 1
\* spans apart, and the longest ride in the table has MAX_ROUTE_SPANS spans.
C30_Witness ==
    /\ Asked
    /\ "X" \in RideBuses
    /\ Len(bus_routes_["X"].route_) = MAX_ROUTE_SPANS + 2
    /\ \E e \in EdgeIds(Graph) : EdgeInfo(e).span_count = MAX_ROUTE_SPANS
    /\ Value(last).route_data # NullOpt
    /\ Len(Value(Value(last).route_data)) = 2

====
